---- MODULE Spec2Model ----
(***************************************************************************)
(* A model of tuda_workspace_scripts:                                      *)
(*   - the removal path   (src/tuda_workspace_scripts/remove.py)           *)
(*   - the branch staleness analyzer, the parallel synchroniser and the    *)
(*     reporter (src/scripts/hooks/update/50.workspace.py)                 *)
(* Paths are sequences of path components, <<>> stands for None/no path.   *)
(***************************************************************************)
EXTENDS Integers, Sequences, FiniteSets, TLC

\* ------------------------------------------------------------------ bounds
MaxItems == 2
MaxBranches == 1
MaxAhead == 1
NumRepos == 2
MaxInterrupts == 2

\* ------------------------------------------------------------------- state
VARIABLES
  rPc,        \* where remove_packages stands
  rItems,     \* the items still to resolve (deduplicated by RBegin)
  rOutside,   \* some given item lies in no repository below src
  rUnknown,   \* some given item is neither a package nor a directory
  rFetch,     \* fetch_remotes
  rWsIsRepo,  \* whether the workspace root is itself a git working tree
  rIdx,       \* the index of the running loop
  rRepoMap,   \* repo_map: a sequence of [root, pkgs], in insertion order
  rExplicit,  \* repos_explicitly_selected
  rMissing,   \* missing_items
  rFinal,     \* final_repos_to_process
  rStatus,    \* the RepoStatus of the repository being processed
  rRet,       \* the return value, -1 while running
  rAsked,     \* the confirmations asked: <<root, kind>>
  rAccepted,  \* the confirmations accepted: <<root, kind>>
  rCleaned,   \* the repositories whose build artifacts were cleaned
  rRmtree,    \* the repositories shutil.rmtree was called on
  rGone,      \* the repositories rmtree removed
  rDirty,     \* the repositories whose RepoStatus had is_clean = FALSE
  rStatusRuns,   \* the repositories _collect_repo_status was called on, in order
  rCleanFailed,  \* the repositories whose clean_packages call returned False
  rHiddenWork    \* the repositories reported clean that hold unpushed work

rvars == <<rPc, rItems, rOutside, rUnknown, rFetch, rWsIsRepo, rIdx, rRepoMap, rExplicit, rMissing,
           rFinal, rStatus, rRet, rAsked, rAccepted, rCleaned, rRmtree, rGone, rDirty,
           rStatusRuns, rCleanFailed, rHiddenWork>>

VARIABLES
  aPc,      \* "input", "done" ("idle" when the analyzer is not run alone)
  aRepo,    \* the repository of the analysed branch
  aBranch,  \* the analysed branch
  aFails,   \* the git commands that fail during the analysis
  aResult   \* what _is_deleted_branch returned

avars == <<aPc, aRepo, aBranch, aFails, aResult>>

VARIABLES
  uPc,         \* where update() stands (the coordinator, the main thread)
  uCpu,        \* os.cpu_count(), 0 for None
  uRepos,      \* collect_repos(): the repository paths, in the order of the walk
  uFacts,      \* path -> what git answers in that repository
  uSubmitted,  \* how many of uRepos were submitted to the pool
  uFutMap,     \* fut_map was assigned (the comprehension ran to its end)
  uSt,         \* path -> "none", "queued", "fetch", "pull", "done", "cancelled"
  uFetchOk,    \* path -> fetch_ok of the running process_repo
  uRes,        \* path -> the RepoResult of a finished process_repo
  uResults,    \* results: the paths whose result was appended, in that order
  uInterrupts, \* the KeyboardInterrupts delivered so far
  uRet,        \* what update() returned: "none", "true", "false"
  uStarted,    \* path -> how often process_repo was invoked
  uPending,    \* the paths queued but not started at the first interrupt
  uLate,       \* the paths whose process_repo started after an interrupt
  uInFlight,   \* the paths with a git subprocess in flight at an interrupt
  uSignalled   \* the subprocess groups os.killpg was called on

uvars == <<uPc, uCpu, uRepos, uFacts, uSubmitted, uFutMap, uSt, uFetchOk, uRes,
           uResults, uInterrupts, uRet, uStarted, uPending, uLate, uInFlight,
           uSignalled>>

VARIABLES
  pSorted,   \* sorted(results, key=path): the paths in the order of the report
  pIdx,      \* the index of the repository being reported
  pStep,     \* where the loop body stands: "head", "offer", "checkout", "pull2",
             \* "candidates"
  pOk,       \* overall_ok
  pPrinted,  \* the paths whose subheader was printed, in that order
  pEvents    \* what was reported, asked and done: <<path, kind, branch>>

pvars == <<pSorted, pIdx, pStep, pOk, pPrinted, pEvents>>

VARIABLES
  gLaunched  \* the git processes started so far that can reach the network, for
             \* each environment this process may have been started in

vars == <<rvars, avars, uvars, pvars, gLaunched>>

\* ----------------------------------------------------------------- helpers
NoPath == <<>>

SeqsUpTo(S, n) == UNION {[1..k -> S] : k \in 0..n}

Range(s) == {s[i] : i \in 1..Len(s)}

\* Path.is_relative_to(base): base is a prefix of path
IsRelativeTo(path, base) ==
  Len(base) <= Len(path) /\ SubSeq(path, 1, Len(base)) = base

\* ------------------------------------------------- the workspace on disk
WsRoot == <<"ws">>
SrcRoot == WsRoot \o <<"src">>

\* ws/src/ext is a symbolic link to /home/ext
LinkFrom == SrcRoot \o <<"ext">>
LinkTo == <<"home", "ext">>

\* Path.resolve(): follows the symbolic link
Resolve(path) ==
  IF IsRelativeTo(path, LinkFrom)
  THEN LinkTo \o SubSeq(path, Len(LinkFrom) + 1, Len(path))
  ELSE path

\* directories that exist (is_dir follows the link)
Dirs ==
  { WsRoot, SrcRoot, WsRoot \o <<"build">>,
    SrcRoot \o <<"r1">>, SrcRoot \o <<"r1", "p1">>, SrcRoot \o <<"r1", "p2">>,
    SrcRoot \o <<"r2">>, SrcRoot \o <<"loose">>, SrcRoot \o <<"loose", "p4">>,
    LinkFrom, LinkTo }

\* git working tree roots; the workspace root itself may be one
GitRoots(wsIsRepo) ==
  { SrcRoot \o <<"r1">>, SrcRoot \o <<"r2">>, LinkTo }
    \cup (IF wsIsRepo THEN {WsRoot} ELSE {})

\* the package registry: package name -> source path (NoPath: unknown name)
get_package_path(item) ==
  CASE item = <<"p1">> -> SrcRoot \o <<"r1", "p1">>
    [] item = <<"p2">> -> SrcRoot \o <<"r1", "p2">>
    [] item = <<"p3">> -> SrcRoot \o <<"r2">>
    [] item = <<"p4">> -> SrcRoot \o <<"loose", "p4">>
    [] item = <<"p5">> -> LinkFrom
    [] OTHER -> NoPath

\* the package registry: the packages found under a directory
find_packages_in_directory(root) ==
  CASE root = SrcRoot \o <<"r1">> -> <<"p1", "p2">>
    [] root = SrcRoot \o <<"r2">> -> <<"p3">>
    [] root = LinkTo -> <<"p5">>
    [] root = WsRoot -> <<"p1", "p2", "p3", "p4">>
    [] OTHER -> <<>>

\* what a user may pass: package names and directory paths
ItemUniverse ==
  { <<"p1">>, <<"p2">>, <<"p3">>, <<"p4">>, <<"p5">>,
    <<"r1">>, <<"r1", "p1">>, <<"src", "r2">>, <<"build">>, <<"nope">> }

\* Repo(path, search_parent_directories=True).working_tree_dir
NearestGitRoot(path, roots) ==
  LET c == {g \in roots : IsRelativeTo(path, g)}
  IN IF c = {} THEN NoPath
     ELSE CHOOSE g \in c : \A h \in c : Len(h) <= Len(g)

\* the mutant: the repository root is accepted wherever it lies
GetRepoRootAnywhere(path, workspace_src, roots) ==
  LET current == Resolve(path)
  IN IF ~IsRelativeTo(current, Resolve(workspace_src)) THEN NoPath
     ELSE NearestGitRoot(current, roots)

_get_repo_root(path, workspace_src, roots) ==
  LET ws_src == Resolve(workspace_src)
      current == Resolve(path)
      repo_root == NearestGitRoot(current, roots)
  IN IF ~IsRelativeTo(current, ws_src) THEN NoPath
     ELSE IF repo_root = NoPath THEN NoPath
     ELSE IF repo_root = ws_src \/ IsRelativeTo(repo_root, ws_src)
          THEN repo_root
          ELSE NoPath

\* list(dict.fromkeys(items)): first occurrences, in order
RECURSIVE Dedup(_)
Dedup(s) ==
  IF s = <<>> THEN <<>>
  ELSE LET front == Dedup(SubSeq(s, 1, Len(s) - 1))
           last == s[Len(s)]
       IN IF last \in Range(front) THEN front ELSE Append(front, last)

\* ------------------------------------------------- removal: repository status
\* ------------------------------------------------ the environment of git
\* whether the environment of this process has GIT_TERMINAL_PROMPT=0
ParentEnvs == BOOLEAN

\* a started git process that can reach the network, and whether its
\* environment has GIT_TERMINAL_PROMPT=0
Launched(cmd, promptOff) == [cmd |-> cmd, promptOff |-> promptOff]

\* launch_subprocess: env = os.environ.copy(); env["GIT_TERMINAL_PROMPT"] = "0"
launch_subprocess(cmd, parent) == Launched(cmd, TRUE)

\* what launch_subprocess starts for cmd, over the environments this process
\* may have
Launches(cmd) == {launch_subprocess(cmd, parent) : parent \in ParentEnvs}

\* a command run through GitPython inherits the environment of this process
GitPythonRun(cmd, parent) == Launched(cmd, parent)

\* the mutant: process_repo starts with the pull
FirstStepPull == "pull"

\* the first subprocess of process_repo
FirstStep == "fetch"

\* a line of `git status --porcelain=v1`: the XY code, and whether the rest holds "->"
StatusLine(x, y, arrow) == [xy |-> <<x, y>>, arrow |-> arrow]

\* the outputs of `git status --porcelain=v1` the model draws from
StatusOutputs ==
  { <<>>,
    <<StatusLine("?", "?", FALSE)>>,
    <<StatusLine(" ", "M", FALSE)>>,
    <<StatusLine("?", "?", FALSE), StatusLine(" ", "D", FALSE)>>,
    <<StatusLine("R", " ", TRUE), StatusLine("A", " ", FALSE)>> }

\* a local branch as the removal path reads it: tracking is <<>> (None) or
\* <<remote, head>>; revList is what `git rev-list --count tracking..branch`
\* answers: -1 when the command raises, else the number of commits ahead
BranchNames == <<"b1", "b2", "b3">>

RemBranchFacts ==
  {b \in [name : Range(BranchNames), tracking : {<<>>, <<"origin", "main">>},
          revList : {-1, 0, 1}] : b.tracking = <<>> => b.revList = 0}

\* the refs that may exist below refs/remotes
RemoteRefPaths ==
  { <<"refs", "remotes", "origin", "main">>, <<"refs", "remotes", "main">> }

\* what git answers about one repository on the removal path
\* (a failing status or stash command hides the lines it would have listed)
RemFacts ==
  [status : {f \in [fails : BOOLEAN, lines : StatusOutputs] :
               f.fails => f.lines = <<StatusLine(" ", "M", FALSE)>>},
   stash : {f \in [fails : BOOLEAN, count : {0, 1}] : f.fails => f.count = 1},
   refs : {{}, {<<"refs", "remotes", "origin", "main">>}, RemoteRefPaths},
   branches : {s \in SeqsUpTo(RemBranchFacts, MaxBranches) :
                 \A i \in 1..Len(s) : s[i].name = BranchNames[i]}]

\* repo.remotes on the removal path
RemRemotes(f) ==
  IF f.refs /= {} \/ \E i \in 1..Len(f.branches) : f.branches[i].tracking /= <<>>
  THEN {"origin"} ELSE {}

\* "if fetch: for remote in repo.remotes: remote.fetch(prune=True)"
StatusFetches(f, fetch) ==
  IF fetch
  THEN {GitPythonRun("remote.fetch", parent) : parent \in ParentEnvs, r \in RemRemotes(f)}
  ELSE {}

IsUntracked(line) == line.xy = <<"?", "?">>

Label(line) ==
  IF "R" \in Range(line.xy) /\ line.arrow THEN "Renamed"
  ELSE IF "D" \in Range(line.xy) THEN "Deleted"
  ELSE IF "A" \in Range(line.xy) THEN "Added"
  ELSE "Modified"

RECURSIVE SummaryOf(_)
SummaryOf(out) ==
  IF out = <<>> THEN <<>>
  ELSE IF IsUntracked(Head(out)) THEN SummaryOf(Tail(out))
  ELSE <<Label(Head(out))>> \o SummaryOf(Tail(out))

\* returns [changes_summary, modified_count, untracked_count]
_collect_worktree_changes(f) ==
  LET out == IF f.status.fails THEN <<>> ELSE f.status.lines
  IN [changes_summary |-> SummaryOf(out),
      modified_count |-> Cardinality({i \in 1..Len(out) : ~IsUntracked(out[i])}),
      untracked_count |-> Cardinality({i \in 1..Len(out) : IsUntracked(out[i])})]

\* `git show-ref --verify refs/remotes/<tracking.remote_head>`:
\* remote_head is the tracking ref's name without its remote
ShowRefVerifies(f, tracking) == <<"refs", "remotes", tracking[2]>> \in f.refs

\* the class of one branch: "local_only", "deleted_upstream", "unpushed" or "ok"
BranchClass(f, b) ==
  IF b.tracking = <<>> THEN "local_only"
  ELSE IF ~ShowRefVerifies(f, b.tracking) THEN "deleted_upstream"
  ELSE IF b.revList > 0 THEN "unpushed"
  ELSE "ok"

\* the mutant: the branches are classified without a fetch as well
RECURSIVE BranchesOfClassUnfetched(_, _, _, _)
BranchesOfClassUnfetched(f, bs, class, fetch) ==
  IF bs = <<>> THEN <<>>
  ELSE (IF BranchClass(f, Head(bs)) = class THEN <<Head(bs).name>> ELSE <<>>)
         \o BranchesOfClassUnfetched(f, Tail(bs), class, fetch)

RECURSIVE BranchesOfClass(_, _, _, _)
BranchesOfClass(f, bs, class, fetch) ==
  IF ~fetch \/ bs = <<>> THEN <<>>
  ELSE (IF BranchClass(f, Head(bs)) = class THEN <<Head(bs).name>> ELSE <<>>)
         \o BranchesOfClass(f, Tail(bs), class, fetch)

\* the status of a repository that was never analysed
NoStatus ==
  [is_git |-> FALSE, has_changes |-> FALSE, untracked_count |-> 0, stash_count |-> 0,
   changes_summary |-> <<>>, unpushed_branches |-> <<>>, local_only_branches |-> <<>>,
   deleted_upstream_branches |-> <<>>, is_clean |-> TRUE]

\* the mutant: deleted-upstream branches do not count as changes
CollectRepoStatusLax(f, fetch) ==
  LET wt == _collect_worktree_changes(f)
      stash_count == IF f.stash.fails THEN 0 ELSE f.stash.count
      unpushed == BranchesOfClass(f, f.branches, "unpushed", fetch)
      local_only == BranchesOfClass(f, f.branches, "local_only", fetch)
      deleted_upstream == BranchesOfClass(f, f.branches, "deleted_upstream", fetch)
      has_changes == \/ wt.modified_count > 0
                     \/ wt.untracked_count > 0
                     \/ stash_count > 0
                     \/ unpushed /= <<>>
                     \/ local_only /= <<>>
  IN [is_git |-> TRUE, has_changes |-> has_changes,
      untracked_count |-> wt.untracked_count, stash_count |-> stash_count,
      changes_summary |-> wt.changes_summary, unpushed_branches |-> unpushed,
      local_only_branches |-> local_only,
      deleted_upstream_branches |-> deleted_upstream,
      is_clean |-> ~has_changes]

_collect_repo_status(f, fetch) ==
  LET wt == _collect_worktree_changes(f)
      stash_count == IF f.stash.fails THEN 0 ELSE f.stash.count
      unpushed == BranchesOfClass(f, f.branches, "unpushed", fetch)
      local_only == BranchesOfClass(f, f.branches, "local_only", fetch)
      deleted_upstream == BranchesOfClass(f, f.branches, "deleted_upstream", fetch)
      has_changes == \/ wt.modified_count > 0
                     \/ wt.untracked_count > 0
                     \/ stash_count > 0
                     \/ unpushed /= <<>>
                     \/ local_only /= <<>>
                     \/ deleted_upstream /= <<>>
  IN [is_git |-> TRUE, has_changes |-> has_changes,
      untracked_count |-> wt.untracked_count, stash_count |-> stash_count,
      changes_summary |-> wt.changes_summary, unpushed_branches |-> unpushed,
      local_only_branches |-> local_only,
      deleted_upstream_branches |-> deleted_upstream,
      is_clean |-> ~has_changes]

\* remove_packages: whether the "local work will be lost" confirmation is asked
NeedsRiskConfirmation(status) ==
  LET has_uncommitted == status.changes_summary /= <<>> \/ status.untracked_count > 0
      has_local_work == has_uncommitted \/ status.stash_count > 0
      has_unpushed == status.unpushed_branches /= <<>>
                        \/ status.local_only_branches /= <<>>
  IN has_local_work \/ has_unpushed

\* ------------------------------------------------- removal: remove_packages
\* the place an item names on disk, as a package or as a directory
ItemPlace(item) ==
  IF get_package_path(item) /= NoPath THEN get_package_path(item)
  ELSE IF WsRoot \o item \in Dirs THEN WsRoot \o item
  ELSE IF SrcRoot \o item \in Dirs THEN SrcRoot \o item
  ELSE NoPath

\* the item names nothing
ItemUnknown(item) == ItemPlace(item) = NoPath

\* the item names a place whose repository root is not below src, or that lies
\* in no repository
ItemOutside(item, wsIsRepo) ==
  /\ ItemPlace(item) /= NoPath
  /\ LET g == NearestGitRoot(Resolve(ItemPlace(item)), GitRoots(wsIsRepo))
     IN g = NoPath \/ ~IsRelativeTo(g, SrcRoot)

RInit ==
  /\ rPc = "start"
  /\ rItems \in SeqsUpTo(ItemUniverse, MaxItems)
  /\ rFetch \in BOOLEAN
  /\ rWsIsRepo \in BOOLEAN
  /\ rOutside = \E i \in 1..Len(rItems) : ItemOutside(rItems[i], rWsIsRepo)
  /\ rUnknown = \E i \in 1..Len(rItems) : ItemUnknown(rItems[i])
  /\ rIdx = 1
  /\ rRepoMap = <<>>
  /\ rExplicit = {}
  /\ rMissing = <<>>
  /\ rFinal = <<>>
  /\ rStatus = NoStatus
  /\ rRet = -1
  /\ rAsked = {}
  /\ rAccepted = {}
  /\ rCleaned = {}
  /\ rRmtree = {}
  /\ rGone = {}
  /\ rDirty = {}
  /\ rStatusRuns = <<>>
  /\ rCleanFailed = {}
  /\ rHiddenWork = {}

\* the state of an idle removal path, for the specifications that do not run it
RIdle ==
  /\ rPc = "idle"
  /\ rItems = <<>>
  /\ rOutside = FALSE
  /\ rUnknown = FALSE
  /\ rFetch = FALSE
  /\ rWsIsRepo = FALSE
  /\ rIdx = 1
  /\ rRepoMap = <<>>
  /\ rExplicit = {}
  /\ rMissing = <<>>
  /\ rFinal = <<>>
  /\ rStatus = NoStatus
  /\ rRet = -1
  /\ rAsked = {}
  /\ rAccepted = {}
  /\ rCleaned = {}
  /\ rRmtree = {}
  /\ rGone = {}
  /\ rDirty = {}
  /\ rStatusRuns = <<>>
  /\ rCleanFailed = {}
  /\ rHiddenWork = {}

MapIndex(map, root) ==
  IF \E i \in 1..Len(map) : map[i].root = root
  THEN CHOOSE i \in 1..Len(map) : map[i].root = root
  ELSE 0

\* the mutant: every item adds an entry of its own
MapAddAlwaysAppend(map, root, pkgs) == Append(map, [root |-> root, pkgs |-> pkgs])

\* repo_map.setdefault(root, []) and, for a package, the append of its name
MapAdd(map, root, pkgs) ==
  LET i == MapIndex(map, root)
  IN IF i = 0 THEN Append(map, [root |-> root, pkgs |-> pkgs])
     ELSE [map EXCEPT ![i].pkgs =
             @ \o SelectSeq(pkgs, LAMBDA p : p \notin Range(map[i].pkgs))]

\* the directory an item names: relative to the workspace, then to src
FoundPath(item) ==
  IF WsRoot \o item \in Dirs THEN WsRoot \o item
  ELSE IF SrcRoot \o item \in Dirs THEN SrcRoot \o item
  ELSE NoPath

\* the mutant: a directory selects its repository as a whole only when it is
\* the root of the repository
ResolveItemRootOnly(item, map, explicit, missing, roots) ==
  LET pkg_path == get_package_path(item)
      repo_root == _get_repo_root(pkg_path, SrcRoot, roots)
      found_path == FoundPath(item)
      real_repo == _get_repo_root(found_path, SrcRoot, roots)
      same == [abort |-> FALSE, map |-> map, explicit |-> explicit, missing |-> missing]
  IN IF pkg_path /= NoPath
     THEN IF repo_root = NoPath THEN [same EXCEPT !.abort = TRUE]
          ELSE [same EXCEPT !.map = MapAdd(map, repo_root, <<item[1]>>)]
     ELSE IF found_path = NoPath
          THEN [same EXCEPT !.missing = Append(missing, item)]
     ELSE IF real_repo = NoPath THEN [same EXCEPT !.abort = TRUE]
     ELSE [same EXCEPT !.explicit = IF Resolve(found_path) = real_repo
                                    THEN explicit \cup {real_repo} ELSE explicit,
                       !.map = MapAdd(map, real_repo, <<>>)]

\* one turn of the loop "1) Resolve items to repos";
\* abort: the function returns 1 at once
ResolveItem(item, map, explicit, missing, roots) ==
  LET pkg_path == get_package_path(item)
      repo_root == _get_repo_root(pkg_path, SrcRoot, roots)
      found_path == FoundPath(item)
      real_repo == _get_repo_root(found_path, SrcRoot, roots)
      same == [abort |-> FALSE, map |-> map, explicit |-> explicit, missing |-> missing]
  IN IF pkg_path /= NoPath
     THEN IF repo_root = NoPath THEN [same EXCEPT !.abort = TRUE]
          ELSE [same EXCEPT !.map = MapAdd(map, repo_root, <<item[1]>>)]
     ELSE IF found_path = NoPath
          THEN [same EXCEPT !.missing = Append(missing, item)]
     ELSE IF real_repo = NoPath THEN [same EXCEPT !.abort = TRUE]
     ELSE [same EXCEPT !.explicit = explicit \cup {real_repo},
                       !.map = MapAdd(map, real_repo, <<>>)]

\* the checks before the first loop, and the deduplication of the items
RBegin ==
  /\ rPc = "start"
  /\ IF rItems = <<>>
     THEN rPc' = "done" /\ rRet' = 1 /\ rItems' = rItems
     ELSE rPc' = "resolve" /\ rRet' = rRet /\ rItems' = Dedup(rItems)
  /\ UNCHANGED <<rOutside, rUnknown, rFetch, rWsIsRepo, rIdx, rRepoMap, rExplicit, rMissing, rFinal,
                 rStatus, rAsked, rAccepted, rCleaned, rRmtree, rGone, rDirty>>
  /\ UNCHANGED <<rStatusRuns, rCleanFailed, rHiddenWork, avars, uvars, pvars, gLaunched>>

RResolveItem ==
  /\ rPc = "resolve"
  /\ rItems /= <<>>
  /\ LET r == ResolveItem(Head(rItems), rRepoMap, rExplicit, rMissing,
                          GitRoots(rWsIsRepo))
     IN /\ rRepoMap' = r.map
        /\ rExplicit' = r.explicit
        /\ rMissing' = r.missing
        /\ rPc' = IF r.abort THEN "done" ELSE "resolve"
        /\ rRet' = IF r.abort THEN 1 ELSE rRet
  /\ rItems' = Tail(rItems)
  /\ UNCHANGED <<rOutside, rUnknown, rFetch, rWsIsRepo, rIdx, rFinal, rStatus, rAsked, rAccepted,
                 rCleaned, rRmtree, rGone, rDirty>>
  /\ UNCHANGED <<rStatusRuns, rCleanFailed, rHiddenWork, avars, uvars, pvars, gLaunched>>

\* the mutant: missing items are reported and the call goes on
MissingItemsIgnored(missing) == FALSE

\* "if missing_items: ... return 1"
MissingItemsAbort(missing) == missing /= <<>>

RCheckMissing ==
  /\ rPc = "resolve"
  /\ rItems = <<>>
  /\ IF MissingItemsAbort(rMissing)
     THEN rPc' = "done" /\ rRet' = 1
     ELSE rPc' = (IF rRepoMap = <<>> THEN "exec" ELSE "group") /\ rRet' = rRet
  /\ rIdx' = 1
  /\ UNCHANGED <<rItems, rOutside, rUnknown, rFetch, rWsIsRepo, rRepoMap, rExplicit, rMissing, rFinal,
                 rStatus, rAsked, rAccepted, rCleaned, rRmtree, rGone, rDirty>>
  /\ UNCHANGED <<rStatusRuns, rCleanFailed, rHiddenWork, avars, uvars, pvars, gLaunched>>

\* the mutant: the other packages of the repository are never asked about
GroupRepoNoAsk(entry, explicit) ==
  [ask |-> FALSE, pkgs |-> find_packages_in_directory(entry.root)]

\* one turn of the loop "2) Determine final repos and packages to clean":
\* ask: the extra-packages confirmation is asked; pkgs: all packages of the repo
GroupRepo(entry, explicit) ==
  LET all_pkgs_in_repo == find_packages_in_directory(entry.root)
      extra_pkgs == SelectSeq(all_pkgs_in_repo, LAMBDA p : p \notin Range(entry.pkgs))
  IN [ask |-> entry.root \notin explicit /\ extra_pkgs /= <<>>,
      pkgs |-> all_pkgs_in_repo]

RGroupRepo ==
  /\ rPc = "group"
  /\ rIdx <= Len(rRepoMap)
  /\ LET entry == rRepoMap[rIdx]
         g == GroupRepo(entry, rExplicit)
     IN \E answer \in BOOLEAN :
          /\ rAsked' = IF g.ask THEN rAsked \cup {<<entry.root, "extra">>} ELSE rAsked
          /\ rAccepted' = IF g.ask /\ answer
                          THEN rAccepted \cup {<<entry.root, "extra">>}
                          ELSE rAccepted
          /\ rFinal' = IF g.ask /\ ~answer THEN rFinal
                       ELSE Append(rFinal, [root |-> entry.root, pkgs |-> g.pkgs])
  /\ rPc' = IF rIdx = Len(rRepoMap) THEN "exec" ELSE "group"
  /\ rIdx' = IF rIdx = Len(rRepoMap) THEN 1 ELSE rIdx + 1
  /\ UNCHANGED <<rItems, rOutside, rUnknown, rFetch, rWsIsRepo, rRepoMap, rExplicit, rMissing, rStatus,
                 rRet, rCleaned, rRmtree, rGone, rDirty>>
  /\ UNCHANGED <<rStatusRuns, rCleanFailed, rHiddenWork, avars, uvars, pvars, gLaunched>>

\* whether the branches of a repository hold work no remote has:
\* a branch without upstream, or commits ahead of its upstream
HoldsUnpushedWork(f) ==
  \E i \in 1..Len(f.branches) :
    f.branches[i].tracking = <<>> \/ f.branches[i].revList > 0

\* the mutant: a failed cleanup leaves the repository on disk
DeleteStepsCleanFirstOrStop(packages, cleanOk) ==
  [clean |-> packages /= <<>>, rmtree |-> packages = <<>> \/ cleanOk]

\* "if packages: if not clean_packages(...): print_error(...)", then the
\* rmtree: which of the two steps run, given what clean_packages returned
DeleteSteps(packages, cleanOk) ==
  [clean |-> packages /= <<>>, rmtree |-> TRUE]

\* the mutant: an OSError of rmtree leaves the loop
AfterRmtreeAbort(rmtreeOk) == IF rmtreeOk THEN "exec" ELSE "done"

\* "except OSError as e: print_error(...)": the loop goes on either way
AfterRmtree(rmtreeOk) == "exec"

\* what one call of _collect_repo_status on a repository answering f leaves
\* behind: the status, whether a clean report hides unpushed work, and the
\* fetches that were started
StatusOutcome(f, fetch) ==
  LET status == _collect_repo_status(f, fetch)
  IN [status |-> status,
      hidden |-> status.is_clean /\ HoldsUnpushedWork(f),
      fetches |-> StatusFetches(f, fetch)]

StatusOutcomesFetched == {StatusOutcome(f, TRUE) : f \in RemFacts}

StatusOutcomesUnfetched == {StatusOutcome(f, FALSE) : f \in RemFacts}

\* the outcomes over everything git may answer
StatusOutcomes(fetch) ==
  IF fetch THEN StatusOutcomesFetched ELSE StatusOutcomesUnfetched

\* "final safety guard"
SafetyGuardRefuses(root) == ~IsRelativeTo(Resolve(root), SrcRoot)

\* loop "3) Execute deletions": the guard, the status and its report
RStatus ==
  /\ rPc = "exec"
  /\ rIdx <= Len(rFinal)
  /\ LET root == rFinal[rIdx].root
     IN IF SafetyGuardRefuses(root)
        THEN /\ rIdx' = rIdx + 1
             /\ UNCHANGED <<rPc, rStatus, rDirty, rStatusRuns, rHiddenWork, gLaunched>>
        ELSE \E o \in StatusOutcomes(rFetch) :
               /\ rStatus' = o.status
               /\ rStatusRuns' = Append(rStatusRuns, root)
               /\ rHiddenWork' = IF o.hidden THEN rHiddenWork \cup {root} ELSE rHiddenWork
               /\ gLaunched' = gLaunched \cup o.fetches
               /\ rDirty' = IF o.status.is_clean THEN rDirty ELSE rDirty \cup {root}
               /\ rPc' = IF NeedsRiskConfirmation(o.status)
                         THEN "confirm_risky" ELSE "confirm_final"
               /\ rIdx' = rIdx
  /\ UNCHANGED <<rItems, rOutside, rUnknown, rFetch, rWsIsRepo, rRepoMap, rExplicit, rMissing, rFinal,
                 rRet, rAsked, rAccepted, rCleaned, rRmtree, rGone, rCleanFailed>>
  /\ UNCHANGED <<avars, uvars, pvars>>

\* confirm("Proceed with deletion of ... anyway?")
RConfirmRisky ==
  /\ rPc = "confirm_risky"
  /\ LET root == rFinal[rIdx].root
     IN \E answer \in BOOLEAN :
          /\ rAsked' = rAsked \cup {<<root, "risky">>}
          /\ rAccepted' = IF answer THEN rAccepted \cup {<<root, "risky">>} ELSE rAccepted
          /\ rPc' = IF answer THEN "confirm_final" ELSE "exec"
          /\ rIdx' = IF answer THEN rIdx ELSE rIdx + 1
          /\ rStatus' = IF answer THEN rStatus ELSE NoStatus
  /\ UNCHANGED <<rItems, rOutside, rUnknown, rFetch, rWsIsRepo, rRepoMap, rExplicit, rMissing, rFinal,
                 rRet, rCleaned, rRmtree, rGone, rDirty>>
  /\ UNCHANGED <<rStatusRuns, rCleanFailed, rHiddenWork, avars, uvars, pvars, gLaunched>>

\* confirm("DELETE ...?")
RConfirmFinal ==
  /\ rPc = "confirm_final"
  /\ LET root == rFinal[rIdx].root
     IN \E answer \in BOOLEAN :
          /\ rAsked' = rAsked \cup {<<root, "final">>}
          /\ rAccepted' = IF answer THEN rAccepted \cup {<<root, "final">>} ELSE rAccepted
          /\ rPc' = IF answer THEN "delete" ELSE "exec"
          /\ rIdx' = IF answer THEN rIdx ELSE rIdx + 1
          /\ rStatus' = IF answer THEN rStatus ELSE NoStatus
  /\ UNCHANGED <<rItems, rOutside, rUnknown, rFetch, rWsIsRepo, rRepoMap, rExplicit, rMissing, rFinal,
                 rRet, rCleaned, rRmtree, rGone, rDirty>>
  /\ UNCHANGED <<rStatusRuns, rCleanFailed, rHiddenWork, avars, uvars, pvars, gLaunched>>

\* clean_packages, then shutil.rmtree; an OSError of rmtree is caught
RDelete ==
  /\ rPc = "delete"
  /\ LET root == rFinal[rIdx].root
         packages == rFinal[rIdx].pkgs
     IN \E cleanOk \in BOOLEAN, rmtreeOk \in BOOLEAN :
          LET steps == DeleteSteps(packages, cleanOk)
          IN /\ rCleaned' = IF steps.clean THEN rCleaned \cup {root} ELSE rCleaned
             /\ rCleanFailed' = IF steps.clean /\ ~cleanOk
                                 THEN rCleanFailed \cup {root} ELSE rCleanFailed
             /\ rRmtree' = IF steps.rmtree THEN rRmtree \cup {root} ELSE rRmtree
             /\ rGone' = IF steps.rmtree /\ rmtreeOk THEN rGone \cup {root} ELSE rGone
             /\ rPc' = AfterRmtree(rmtreeOk)
  /\ rIdx' = rIdx + 1
  /\ rStatus' = NoStatus
  /\ UNCHANGED <<rItems, rOutside, rUnknown, rFetch, rWsIsRepo, rRepoMap, rExplicit, rMissing, rFinal,
                 rRet, rAsked, rAccepted, rDirty>>
  /\ UNCHANGED <<rStatusRuns, rHiddenWork, avars, uvars, pvars, gLaunched>>

\* "return 0" after the last repository
RReturn ==
  /\ rPc = "exec"
  /\ rIdx > Len(rFinal)
  /\ rPc' = "done"
  /\ rRet' = 0
  /\ UNCHANGED <<rItems, rOutside, rUnknown, rFetch, rWsIsRepo, rIdx, rRepoMap, rExplicit, rMissing,
                 rFinal, rStatus, rAsked, rAccepted, rCleaned, rRmtree, rGone, rDirty>>
  /\ UNCHANGED <<rStatusRuns, rCleanFailed, rHiddenWork, avars, uvars, pvars, gLaunched>>

RNext ==
  \/ RBegin
  \/ RResolveItem
  \/ RCheckMissing
  \/ RGroupRepo
  \/ RStatus
  \/ RConfirmRisky
  \/ RConfirmFinal
  \/ RDelete
  \/ RReturn

\* ------------------------------------------- update: the staleness analyzer
\* A repository as the update path reads it after the fetch:
\*   head     "nohead" (invalid HEAD), "detached", or the checked-out branch
\*   remotes  the names of the configured remotes
\*   refs     the remote-tracking refs that exist, each <<remote, head>>
\*   symref   what `git symbolic-ref -q refs/remotes/origin/HEAD` prints, as
\*            path components; <<"fail">> when the command fails
\*   branches the local branches: name, tracking (<<>> for None, else
\*            <<remote, head>>), ahead (the commits no remote-tracking ref
\*            reaches) and merged (the branch is an ancestor of origin/main)
SymOutputs ==
  { <<"fail">>, <<>>, <<"refs", "remotes", "origin", "main">>,
    <<"refs", "heads", "main">> }

\* a branch that is an ancestor of a remote-tracking ref has no commit that
\* no remote-tracking ref reaches
UBranchFacts ==
  {b \in [name : Range(BranchNames), tracking : {<<>>} \cup ({"origin"} \X Range(BranchNames)),
          ahead : 0..MaxAhead, merged : BOOLEAN] :
     /\ b.tracking /= <<>> => b.tracking[2] = b.name
     /\ b.merged => b.ahead = 0}

UBranchSeqs ==
  {s \in SeqsUpTo(UBranchFacts, MaxBranches) :
     \A i \in 1..Len(s) : s[i].name = BranchNames[i]}

UHeads(branches) == {"nohead", "detached"} \cup {branches[i].name : i \in 1..Len(branches)}

URepoFacts ==
  {g \in [head : {"nohead", "detached"} \cup Range(BranchNames),
          remotes : SUBSET {"origin"},
          refs : SUBSET ({"origin"} \X Range(BranchNames)),
          symref : SymOutputs,
          branches : UBranchSeqs] :
     /\ g.head \in UHeads(g.branches)
     /\ g.head = "nohead" => g.branches = <<>>
     /\ \A r \in g.refs : \E i \in 1..Len(g.branches) : g.branches[i].name = r[2]}

\* which git commands fail while one branch is analysed
CmdFailures == [revList : BOOLEAN, mergeBase : BOOLEAN]

NoFailure == [revList |-> FALSE, mergeBase |-> FALSE]

\* rev-list --count <branch> --not --remotes; False when the command fails
_has_commits_not_on_any_remote(b, fails) ==
  IF fails.revList THEN FALSE ELSE b.ahead > 0

\* "<remote>/<branch>" from refs/remotes/<remote>/HEAD, <<>> for None
_remote_head_mainline_ref(g, remote_name) ==
  LET sym == g.symref
      prefix == <<"refs", "remotes", remote_name>>
  IN IF sym = <<"fail">> THEN <<>>
     ELSE IF sym = <<>> THEN <<>>
     ELSE IF IsRelativeTo(sym, prefix)
          THEN <<remote_name>> \o SubSeq(sym, Len(prefix) + 1, Len(sym))
          ELSE <<>>

\* the mutant: a failing merge-base counts as merged
IsAncestorFailOpen(b, mainline, fails) ==
  IF fails.mergeBase THEN TRUE ELSE b.merged /\ mainline = <<"origin", "main">>

\* merge-base --is-ancestor <branch> <mainline>; False when the command fails
_is_ancestor(b, mainline, fails) ==
  IF fails.mergeBase THEN FALSE ELSE b.merged /\ mainline = <<"origin", "main">>

\* the mutant: the checked-out branch is not recognised
IsCurrentBranchNever(g, b) == FALSE

\* not repo.head.is_detached and branch.name == repo.head.ref.name
IsCurrentBranch(g, b) == g.head /= "detached" /\ b.name = g.head

\* repo.remotes[tracking.remote_name] raises IndexError
RemoteMissing(g, tracking) == tracking[1] \notin g.remotes

\* the mutant: the upstream is never found among the remote's refs
UpstreamAliveNever(g, tracking) == FALSE

\* tracking.name in {r.name for r in remote.refs}
UpstreamAlive(g, tracking) == tracking \in {r \in g.refs : r[1] = tracking[1]}

\* returns [deletable, warn]; warn = "" stands for None
_is_deleted_branch(g, b, fails) ==
  LET tracking == b.tracking
      mainline == _remote_head_mainline_ref(g, tracking[1])
      no == [deletable |-> FALSE, warn |-> ""]
  IN IF tracking = <<>> THEN no
     ELSE IF tracking[1] = "" THEN no
     ELSE IF RemoteMissing(g, tracking)
          THEN IF IsCurrentBranch(g, b)
               THEN [no EXCEPT !.warn = "remote of current branch does not exist"]
               ELSE no
     ELSE IF UpstreamAlive(g, tracking) THEN no
     ELSE IF IsCurrentBranch(g, b)
          THEN [no EXCEPT !.warn = "current branch was deleted on the remote"]
     ELSE IF _has_commits_not_on_any_remote(b, fails)
          THEN [no EXCEPT !.warn = "commits not present on any remote"]
     ELSE IF mainline = <<>>
          THEN [no EXCEPT !.warn = "mainline could not be resolved"]
     ELSE IF ~_is_ancestor(b, mainline, fails)
          THEN [no EXCEPT !.warn = "not merged into mainline"]
     ELSE [deletable |-> TRUE, warn |-> ""]

NoRepoFacts ==
  [head |-> "nohead", remotes |-> {}, refs |-> {}, symref |-> <<"fail">>,
   branches |-> <<>>]

NoBranch == [name |-> "b1", tracking |-> <<>>, ahead |-> 0, merged |-> FALSE]

NoResult == [deletable |-> FALSE, warn |-> ""]

AInit ==
  /\ aPc = "input"
  /\ aRepo \in {g \in URepoFacts : g.branches /= <<>>}
  /\ aBranch \in Range(aRepo.branches)
  /\ aFails \in CmdFailures
  /\ aResult = NoResult

AIdle ==
  /\ aPc = "idle"
  /\ aRepo = NoRepoFacts
  /\ aBranch = NoBranch
  /\ aFails = NoFailure
  /\ aResult = NoResult

AAnalyze ==
  /\ aPc = "input"
  /\ aResult' = _is_deleted_branch(aRepo, aBranch, aFails)
  /\ aPc' = "done"
  /\ UNCHANGED <<aRepo, aBranch, aFails>>
  /\ UNCHANGED <<rvars, uvars, pvars, gLaunched>>

ANext == AAnalyze

\* ------------------------------------------------ update: process_repo
\* What one repository does during a run: its git state, whether the fetch and
\* the pull succeed, and the step of process_repo that raises an exception
RaisePoints == {"none", "fetch", "open", "pull", "detect"}

UFactsAll ==
  {f \in [git : URepoFacts, fetch : {"ok", "fail"}, pull : {"ok", "fail"},
          raiseAt : RaisePoints] :
     \* a pull that is never started neither fails nor raises
     /\ f.pull = "fail" \/ f.raiseAt = "pull" =>
          /\ f.git.head \notin {"nohead", "detached"}
          /\ \E b \in Range(f.git.branches) :
               b.name = f.git.head /\ b.tracking \in f.git.refs}

NoRes ==
  [path |-> 0, branch |-> "", fetch_ok |-> FALSE, pull_attempted |-> FALSE,
   pull_ok |-> FALSE, deletable |-> <<>>, warnings |-> <<>>, error |-> "",
   current_branch_deleted_remote |-> FALSE, current_branch_remote |-> ""]

\* the mutant: the error result claims a successful fetch
ErrorResultFetchOk(path) ==
  [NoRes EXCEPT !.path = path, !.branch = "?", !.fetch_ok = TRUE,
                !.error = "exception"]

\* "except Exception as exc: return RepoResult(repo_path, "?", False, ...)"
ErrorResult(path) ==
  [NoRes EXCEPT !.path = path, !.branch = "?", !.error = "exception"]

\* the result for an invalid HEAD
NoHeadResult(path, fetch_ok) ==
  [NoRes EXCEPT !.path = path, !.branch = "no-HEAD", !.fetch_ok = fetch_ok,
                !.pull_ok = TRUE]

HeadBranch(g) == CHOOSE b \in Range(g.branches) : b.name = g.head

\* the mutant: the upstream is taken to resolve without asking git
RevParseAlways(g, upstream) == TRUE

\* repo.git.rev_parse(upstream.name) succeeds
RevParseOk(g, upstream) == upstream \in g.refs

\* "3. Pull current branch": whether git pull --ff-only is started
PullWanted(g) ==
  /\ g.head /= "detached"
  /\ HeadBranch(g).tracking /= <<>>
  /\ RevParseOk(g, HeadBranch(g).tracking)

\* the remote of the checked-out branch, "" for None
CurrentBranchRemote(g) ==
  IF g.head /= "detached" /\ HeadBranch(g).tracking /= <<>>
  THEN HeadBranch(g).tracking[1]
  ELSE ""

\* the tracking ref of the checked-out branch is not among its remote's refs
CurrentBranchDeletedRemote(g) ==
  /\ CurrentBranchRemote(g) /= ""
  /\ ~RemoteMissing(g, HeadBranch(g).tracking)
  /\ ~UpstreamAlive(g, HeadBranch(g).tracking)

RECURSIVE Deletable(_, _, _)
Deletable(g, bs, fails) ==
  IF bs = <<>> THEN <<>>
  ELSE (IF _is_deleted_branch(g, Head(bs), Head(fails)).deletable
        THEN <<Head(bs).name>> ELSE <<>>)
         \o Deletable(g, Tail(bs), Tail(fails))

RECURSIVE Warnings(_, _, _)
Warnings(g, bs, fails) ==
  IF bs = <<>> THEN <<>>
  ELSE (IF _is_deleted_branch(g, Head(bs), Head(fails)).warn /= ""
        THEN <<_is_deleted_branch(g, Head(bs), Head(fails)).warn>> ELSE <<>>)
         \o Warnings(g, Tail(bs), Tail(fails))

\* the mutant: stale branches are looked for after a failed fetch too
DetectionAlways(fetch_ok) == TRUE

\* "if fetch_ok:" before "4. Stale-branch detection"
DetectionRuns(fetch_ok) == fetch_ok

\* "4. Stale-branch detection" and the final RepoResult; fails[i] are the git
\* commands that fail while branch i is analysed
FinalResult(path, g, fetch_ok, pull_attempted, pull_ok, fails) ==
  LET detect == DetectionRuns(fetch_ok)
  IN [path |-> path,
      branch |-> IF g.head = "detached" THEN "detached@" ELSE g.head,
      fetch_ok |-> fetch_ok,
      pull_attempted |-> pull_attempted,
      pull_ok |-> pull_ok,
      deletable |-> IF detect THEN Deletable(g, g.branches, fails) ELSE <<>>,
      warnings |-> IF detect THEN Warnings(g, g.branches, fails) ELSE <<>>,
      error |-> "",
      current_branch_deleted_remote |-> detect /\ CurrentBranchDeletedRemote(g),
      current_branch_remote |-> IF detect THEN CurrentBranchRemote(g) ELSE ""]

\* the mutant: the pool always gets the 32 workers of the cap
MaxWorkersAlwaysCap(cpu_count) == 32

\* min(32, cpu_count * 4), with "os.cpu_count() or 1"
MaxWorkersOf(cpu_count) ==
  LET n == (IF cpu_count = 0 THEN 1 ELSE cpu_count) * 4
  IN IF n < 32 THEN n ELSE 32

\* process_repo from the end of the fetch to its next wait or its end:
\* [st |-> "pull"] when git pull was started, else [st |-> "done", res |-> ...]
AfterFetch(path, f, fetch_ok, fails) ==
  IF f.raiseAt = "open" THEN [st |-> "done", res |-> ErrorResult(path)]
  ELSE IF f.git.head = "nohead"
       THEN [st |-> "done", res |-> NoHeadResult(path, fetch_ok)]
  ELSE IF PullWanted(f.git)
       THEN IF f.raiseAt = "pull" THEN [st |-> "done", res |-> ErrorResult(path)]
            ELSE [st |-> "pull", res |-> NoRes]
  ELSE IF f.raiseAt = "detect" THEN [st |-> "done", res |-> ErrorResult(path)]
  ELSE [st |-> "done",
        res |-> FinalResult(path, f.git, fetch_ok, FALSE, TRUE, fails)]

\* process_repo from the end of the pull to its end
AfterPull(path, f, fetch_ok, fails) ==
  IF f.raiseAt = "detect" THEN ErrorResult(path)
  ELSE FinalResult(path, f.git, fetch_ok, TRUE, f.pull = "ok", fails)

\* ---------------------------------------------- update: the parallel phase
\* one repository more than a pool of four workers takes at once
WideRepos == NumRepos + 3

\* the paths the pool state is kept for
Paths == DOMAIN uSt

Running == {p \in Paths : uSt[p] \in {"fetch", "pull"}}

Queued == {p \in Paths : uSt[p] = "queued"}

\* the git subprocesses in flight, each with the thread that waits for it
InFlight == {[path |-> p, thread |-> "worker"] : p \in Running}

\* launch_subprocess: the processes whose group gets os.killpg when a
\* KeyboardInterrupt is raised in `thread`: those `thread` itself waits for
Killpg(procs, thread) == {q \in procs : q.thread = thread}

\* the mutant: the last repository is never submitted
SubmitAllButLast(repos) == SubSeq(repos, 1, Len(repos) - 1)

\* "{pool.submit(process_repo, p): p for p in repos}": what is submitted
Submissions(repos) == repos

UIdle ==
  /\ uPc = "idle"
  /\ uCpu = 0
  /\ uRepos = <<>>
  /\ uFacts = <<>>
  /\ uSubmitted = 0
  /\ uFutMap = FALSE
  /\ uSt = [p \in 1..NumRepos |-> "none"]
  /\ uFetchOk = [p \in 1..NumRepos |-> FALSE]
  /\ uRes = [p \in 1..NumRepos |-> NoRes]
  /\ uResults = <<>>
  /\ uInterrupts = 0
  /\ uRet = "none"
  /\ uStarted = [p \in 1..NumRepos |-> 0]
  /\ uPending = {}
  /\ uLate = {}
  /\ uInFlight = {}
  /\ uSignalled = {}

\* the start of update() over n repositories whose behaviour is drawn from F,
\* on a machine whose os.cpu_count() is in cpus (0 for None)
UInit(ns, F, cpus) ==
  /\ uPc = "begin"
  /\ uCpu \in cpus
  /\ \E n \in ns :
       /\ uRepos \in {s \in [1..n -> 1..n] : \A i, j \in 1..n : s[i] = s[j] => i = j}
       /\ uFacts \in [1..n -> F]
  /\ uSubmitted = 0
  /\ uFutMap = FALSE
  /\ uSt = [p \in 1..NumRepos |-> "none"]
  /\ uFetchOk = [p \in 1..NumRepos |-> FALSE]
  /\ uRes = [p \in 1..NumRepos |-> NoRes]
  /\ uResults = <<>>
  /\ uInterrupts = 0
  /\ uRet = "none"
  /\ uStarted = [p \in 1..NumRepos |-> 0]
  /\ uPending = {}
  /\ uLate = {}
  /\ uInFlight = {}
  /\ uSignalled = {}

\* "if not repos: return True"
UBegin ==
  /\ uPc = "begin"
  /\ IF uRepos = <<>>
     THEN uPc' = "returned" /\ uRet' = "true"
     ELSE uPc' = "submit" /\ uRet' = uRet
  /\ UNCHANGED <<uCpu, uRepos, uFacts, uSubmitted, uFutMap, uSt, uFetchOk, uRes,
                 uResults, uInterrupts, uStarted, uPending, uLate, uInFlight,
                 uSignalled>>
  /\ UNCHANGED <<rvars, avars, pvars, gLaunched>>

\* one pool.submit; fut_map is assigned after the last one
USubmit ==
  /\ uPc = "submit"
  /\ LET subs == Submissions(uRepos)
     IN IF uSubmitted < Len(subs)
        THEN /\ uSt' = [uSt EXCEPT ![subs[uSubmitted + 1]] = "queued"]
             /\ uSubmitted' = uSubmitted + 1
             /\ UNCHANGED <<uPc, uFutMap>>
        ELSE /\ uFutMap' = TRUE
             /\ uPc' = "collect"
             /\ UNCHANGED <<uSt, uSubmitted>>
  /\ UNCHANGED <<uCpu, uRepos, uFacts, uFetchOk, uRes, uResults, uInterrupts, uRet,
                 uStarted, uPending, uLate, uInFlight, uSignalled>>
  /\ UNCHANGED <<rvars, avars, pvars, gLaunched>>

\* the oldest queued work item
NextQueued ==
  uRepos[CHOOSE i \in 1..Len(uRepos) :
           /\ uRepos[i] \in Queued
           /\ \A j \in 1..(i - 1) : uRepos[j] \notin Queued]

\* a free worker thread takes the oldest work item: process_repo starts and
\* launches git fetch
UStart ==
  /\ Queued /= {}
  /\ Cardinality(Running) < MaxWorkersOf(uCpu)
  /\ LET p == NextQueued
     IN /\ uStarted' = [uStarted EXCEPT ![p] = @ + 1]
        /\ uLate' = IF uInterrupts > 0 THEN uLate \cup {p} ELSE uLate
        /\ IF uFacts[p].raiseAt = "fetch"
           THEN /\ uSt' = [uSt EXCEPT ![p] = "done"]
                /\ uRes' = [uRes EXCEPT ![p] = ErrorResult(p)]
                /\ gLaunched' = gLaunched
           ELSE /\ uSt' = [uSt EXCEPT ![p] = FirstStep]
                /\ uRes' = uRes
                /\ gLaunched' = gLaunched \cup Launches("fetch")
  /\ UNCHANGED <<uPc, uCpu, uRepos, uFacts, uSubmitted, uFutMap, uFetchOk, uResults,
                 uInterrupts, uRet, uPending, uInFlight, uSignalled>>
  /\ UNCHANGED <<rvars, avars, pvars>>

\* git fetch ends; process_repo runs on to the pull or to its end
UFetchDone(p) ==
  /\ uSt[p] = "fetch"
  /\ LET f == uFacts[p]
         fetch_ok == f.fetch = "ok"
     IN \E fails \in [1..Len(f.git.branches) -> CmdFailures] :
          LET a == AfterFetch(p, f, fetch_ok, fails)
          IN /\ uSt' = [uSt EXCEPT ![p] = a.st]
             /\ uRes' = [uRes EXCEPT ![p] = a.res]
             /\ uFetchOk' = [uFetchOk EXCEPT ![p] = fetch_ok /\ a.st = "pull"]
             /\ gLaunched' = IF a.st = "pull" THEN gLaunched \cup Launches("pull")
                             ELSE gLaunched
  /\ UNCHANGED <<uPc, uCpu, uRepos, uFacts, uSubmitted, uFutMap, uResults,
                 uInterrupts, uRet, uStarted, uPending, uLate, uInFlight, uSignalled>>
  /\ UNCHANGED <<rvars, avars, pvars>>

\* git pull ends; process_repo runs to its end
UPullDone(p) ==
  /\ uSt[p] = "pull"
  /\ \E fails \in [1..Len(uFacts[p].git.branches) -> CmdFailures] :
       uRes' = [uRes EXCEPT ![p] = AfterPull(p, uFacts[p], uFetchOk[p], fails)]
  /\ uSt' = [uSt EXCEPT ![p] = "done"]
  /\ uFetchOk' = [uFetchOk EXCEPT ![p] = FALSE]
  /\ UNCHANGED <<uPc, uCpu, uRepos, uFacts, uSubmitted, uFutMap, uResults,
                 uInterrupts, uRet, uStarted, uPending, uLate, uInFlight, uSignalled>>
  /\ UNCHANGED <<rvars, avars, pvars, gLaunched>>

\* the mutant: the loop over as_completed ends with the first result
AnyCollected(results, submitted) == Len(results) >= 1

\* "for fut in as_completed(fut_map)" is exhausted: every submitted future
\* delivered its result
AllCollected(results, submitted) == Len(results) = submitted

\* as_completed yields a finished future: results.append(fut.result());
\* after the last one the pool is left and the sequential phase begins
UCollect(p) ==
  /\ uPc = "collect"
  /\ uSt[p] = "done"
  /\ p \notin Range(uResults)
  /\ uResults' = Append(uResults, p)
  /\ uPc' = IF AllCollected(uResults', uSubmitted) THEN "report" ELSE "collect"
  /\ UNCHANGED <<uCpu, uRepos, uFacts, uSubmitted, uFutMap, uSt, uFetchOk, uRes,
                 uInterrupts, uRet, uStarted, uPending, uLate, uInFlight, uSignalled>>
  /\ UNCHANGED <<rvars, avars, pvars, gLaunched>>

\* a KeyboardInterrupt reaches the main thread inside the "with" block: the
\* block is left through ThreadPoolExecutor.__exit__, which waits for the pool
UInterrupt ==
  /\ uPc \in {"submit", "collect"}
  /\ uInterrupts < MaxInterrupts
  /\ uInterrupts' = uInterrupts + 1
  /\ uPc' = "shutdown"
  /\ uPending' = Queued
  /\ uInFlight' = Running
  /\ uSignalled' = uSignalled \cup {q.path : q \in Killpg(InFlight, "main")}
  /\ UNCHANGED <<uCpu, uRepos, uFacts, uSubmitted, uFutMap, uSt, uFetchOk, uRes,
                 uResults, uRet, uStarted, uLate>>
  /\ UNCHANGED <<rvars, avars, pvars, gLaunched>>

\* "for fut in fut_map: fut.cancel()": a future that is still queued is cancelled
CancelAll(st, futMap) ==
  [p \in Paths |-> IF futMap /\ st[p] = "queued" THEN "cancelled" ELSE st[p]]

\* every worker thread has ended: __exit__ returns, the KeyboardInterrupt
\* reaches "except KeyboardInterrupt", update() returns False
UShutdownDone ==
  /\ uPc = "shutdown"
  /\ Queued = {} /\ Running = {}
  /\ uSt' = CancelAll(uSt, uFutMap)
  /\ uPc' = "returned"
  /\ uRet' = "false"
  /\ UNCHANGED <<uCpu, uRepos, uFacts, uSubmitted, uFutMap, uFetchOk, uRes, uResults,
                 uInterrupts, uStarted, uPending, uLate, uInFlight, uSignalled>>
  /\ UNCHANGED <<rvars, avars, pvars, gLaunched>>

\* a further KeyboardInterrupt ends the wait of __exit__ early
UInterruptJoin ==
  /\ uPc = "shutdown"
  /\ Queued \cup Running /= {}
  /\ uInterrupts < MaxInterrupts
  /\ uInterrupts' = uInterrupts + 1
  /\ uSt' = CancelAll(uSt, uFutMap)
  /\ uPc' = "returned"
  /\ uRet' = "false"
  /\ uSignalled' = uSignalled \cup {q.path : q \in Killpg(InFlight, "main")}
  /\ UNCHANGED <<uCpu, uRepos, uFacts, uSubmitted, uFutMap, uFetchOk, uRes, uResults,
                 uStarted, uPending, uLate, uInFlight>>
  /\ UNCHANGED <<rvars, avars, pvars, gLaunched>>

\* a run that no KeyboardInterrupt reaches
WNext ==
  \/ UBegin
  \/ USubmit
  \/ UStart
  \/ \E p \in Paths : UFetchDone(p)
  \/ \E p \in Paths : UPullDone(p)
  \/ \E p \in Paths : UCollect(p)

PNext ==
  \/ WNext
  \/ UInterrupt
  \/ UShutdownDone
  \/ UInterruptJoin

\* ---------------------------------------------- update: the sequential phase
PIdle ==
  /\ pSorted = <<>>
  /\ pIdx = 1
  /\ pStep = "head"
  /\ pOk = TRUE
  /\ pPrinted = <<>>
  /\ pEvents = {}

GIdle == gLaunched = {}

RECURSIVE InsertByPath(_, _)
InsertByPath(p, sorted) ==
  IF sorted = <<>> THEN <<p>>
  ELSE IF p < Head(sorted) THEN <<p>> \o sorted
  ELSE <<Head(sorted)>> \o InsertByPath(p, Tail(sorted))

\* the mutant: the results are reported in the order they were appended
Unsorted(results) == results

\* sorted(results, key=lambda r: r.path)
RECURSIVE SortByPath(_)
SortByPath(results) ==
  IF results = <<>> THEN <<>>
  ELSE InsertByPath(Head(results), SortByPath(Tail(results)))

\* the events of one kind about the branches bs of the repository p
BranchEvents(p, kind, bs) == {<<p, kind, bs[i]>> : i \in 1..Len(bs)}

\* one event about the repository p
Event(p, kind) == {<<p, kind, "">>}

\* the step that follows the stale-current-branch offer: the deletion prompt
\* when there are deletable branches, else the next repository
AfterOffer(res) == IF res.deletable /= <<>> THEN "candidates" ELSE "head"

\* the sequential phase begins: the results are sorted
PBegin ==
  /\ uPc = "report"
  /\ uPc' = "visit"
  /\ pSorted' = SortByPath(uResults)
  /\ pIdx' = 1
  /\ pStep' = "head"
  /\ pOk' = TRUE
  /\ UNCHANGED <<pPrinted, pEvents>>
  /\ UNCHANGED <<uCpu, uRepos, uFacts, uSubmitted, uFutMap, uSt, uFetchOk, uRes,
                 uResults, uInterrupts, uRet, uStarted, uPending, uLate, uInFlight,
                 uSignalled>>
  /\ UNCHANGED <<rvars, avars, gLaunched>>

\* the mutant: a failed fetch is reported and the report goes on with the pull
VisitHeadPastFetch(p, res) ==
  LET header == Event(p, "header")
  IN IF res.error /= ""
     THEN [events |-> header \cup Event(p, "error"), ok |-> FALSE, step |-> "head"]
     ELSE [events |-> header
                        \cup (IF ~res.fetch_ok THEN Event(p, "fetch_failed") ELSE {})
                        \cup (IF res.pull_attempted
                              THEN (IF res.pull_ok THEN Event(p, "pulled")
                                    ELSE Event(p, "pull_failed"))
                              ELSE Event(p, "pull_skipped"))
                        \cup (IF res.warnings /= <<>> THEN Event(p, "warnings") ELSE {}),
           ok |-> res.fetch_ok /\ ~(res.pull_attempted /\ ~res.pull_ok),
           step |-> IF res.current_branch_deleted_remote
                       /\ res.current_branch_remote /= ""
                    THEN "offer" ELSE AfterOffer(res)]

\* the mutant: nothing but the subheader, and no failure is counted
VisitHeadQuiet(p, res) ==
  [events |-> Event(p, "header"), ok |-> TRUE, step |-> "head"]

\* what the head of the loop body reports for one result:
\* [events, ok, step]; step "head" means "continue with the next repository"
VisitHead(p, res) ==
  LET header == Event(p, "header")
  IN IF res.error /= ""
     THEN [events |-> header \cup Event(p, "error"), ok |-> FALSE, step |-> "head"]
     ELSE IF ~res.fetch_ok
     THEN [events |-> header \cup Event(p, "fetch_failed"), ok |-> FALSE,
           step |-> "head"]
     ELSE [events |-> header
                        \cup (IF res.pull_attempted
                              THEN (IF res.pull_ok THEN Event(p, "pulled")
                                    ELSE Event(p, "pull_failed"))
                              ELSE Event(p, "pull_skipped"))
                        \cup (IF res.warnings /= <<>> THEN Event(p, "warnings") ELSE {}),
           ok |-> ~(res.pull_attempted /\ ~res.pull_ok),
           step |-> IF res.current_branch_deleted_remote
                       /\ res.current_branch_remote /= ""
                    THEN "offer" ELSE AfterOffer(res)]

\* the subheader, the error, fetch and pull status and the warnings of one
\* repository
PVisit ==
  /\ uPc = "visit"
  /\ pStep = "head"
  /\ pIdx <= Len(pSorted)
  /\ LET p == pSorted[pIdx]
         v == VisitHead(p, uRes[p])
     IN /\ pPrinted' = Append(pPrinted, p)
        /\ pEvents' = pEvents \cup v.events
        /\ pOk' = (pOk /\ v.ok)
        /\ pStep' = v.step
        /\ pIdx' = IF v.step = "head" THEN pIdx + 1 ELSE pIdx
  /\ UNCHANGED pSorted
  /\ UNCHANGED <<uvars, rvars, avars, gLaunched>>

\* the stale-current-branch offer up to the start of git checkout;
\* raises: git.Repo or a git command raised inside the try block
POffer ==
  /\ uPc = "visit"
  /\ pStep = "offer"
  /\ LET p == pSorted[pIdx]
         res == uRes[p]
         mainline == _remote_head_mainline_ref(uFacts[p].git, res.current_branch_remote)
     IN \E raises \in BOOLEAN, answer \in BOOLEAN :
          IF raises
          THEN /\ pEvents' = pEvents \cup Event(p, "offer_error")
               /\ pOk' = FALSE
               /\ pStep' = AfterOffer(res)
               /\ gLaunched' = gLaunched
          ELSE IF mainline = <<>>
          THEN /\ pEvents' = pEvents \cup Event(p, "offer_unresolved")
               /\ pOk' = pOk
               /\ pStep' = AfterOffer(res)
               /\ gLaunched' = gLaunched
          ELSE IF ~answer
          THEN /\ pEvents' = pEvents \cup Event(p, "offer_asked")
               /\ pOk' = pOk
               /\ pStep' = AfterOffer(res)
               /\ gLaunched' = gLaunched
          ELSE /\ pEvents' = pEvents \cup Event(p, "offer_asked")
                               \cup Event(p, "offer_accepted")
               /\ pOk' = pOk
               /\ pStep' = "checkout"
               /\ gLaunched' = gLaunched \cup Launches("checkout")
  /\ pIdx' = IF pStep' = "head" THEN pIdx + 1 ELSE pIdx
  /\ UNCHANGED <<pSorted, pPrinted>>
  /\ UNCHANGED <<uvars, rvars, avars>>

\* git checkout <mainline_local> ends
PCheckoutDone ==
  /\ uPc = "visit"
  /\ pStep = "checkout"
  /\ LET p == pSorted[pIdx]
         res == uRes[p]
     IN \E co_ok \in BOOLEAN :
          IF ~co_ok
          THEN /\ pEvents' = pEvents \cup Event(p, "checkout_failed")
               /\ pOk' = FALSE
               /\ pStep' = AfterOffer(res)
               /\ gLaunched' = gLaunched
          ELSE /\ pEvents' = pEvents \cup Event(p, "checked_out")
               /\ pOk' = pOk
               /\ pStep' = "pull2"
               /\ gLaunched' = gLaunched \cup Launches("pull")
  /\ pIdx' = IF pStep' = "head" THEN pIdx + 1 ELSE pIdx
  /\ UNCHANGED <<pSorted, pPrinted>>
  /\ UNCHANGED <<uvars, rvars, avars>>

\* the repository after "git checkout <mainline_local>" succeeded
CheckedOut(g, mainline) == [g EXCEPT !.head = mainline[2]]

\* the mutant: a deletable branch is deleted without the second question
FormerBranchOfferUnasked(p, d, name, pull_ok, answer, del_ok) ==
  [events |-> (IF pull_ok THEN Event(p, "pulled2") ELSE Event(p, "pull2_failed"))
                \cup Event(p, "reanalysed")
                \cup (IF d.warn /= "" THEN Event(p, "rewarned") ELSE {})
                \cup (IF d.deletable
                      THEN BranchEvents(p, IF del_ok THEN "deleted" ELSE "delete_failed",
                                        <<name>>)
                      ELSE {}),
   ok |-> pull_ok /\ ~(d.deletable /\ ~del_ok)]

\* what follows a successful checkout: the outcome of the follow-up pull, the
\* result d of _is_deleted_branch for the formerly current branch, the second
\* confirmation and delete_head
FormerBranchOffer(p, d, name, pull_ok, answer, del_ok) ==
  [events |-> (IF pull_ok THEN Event(p, "pulled2") ELSE Event(p, "pull2_failed"))
                \cup Event(p, "reanalysed")
                \cup (IF d.warn /= "" THEN Event(p, "rewarned") ELSE {})
                \cup (IF d.deletable THEN BranchEvents(p, "ask_current", <<name>>)
                      ELSE {})
                \cup (IF d.deletable /\ answer
                      THEN BranchEvents(p, "accept_current", <<name>>)
                             \cup BranchEvents(p, IF del_ok THEN "deleted"
                                                  ELSE "delete_failed", <<name>>)
                      ELSE {}),
   ok |-> pull_ok /\ ~(d.deletable /\ answer /\ ~del_ok)]

\* the follow-up pull ends; the formerly current branch is analysed again and,
\* when deletable and confirmed, deleted
PPull2Done ==
  /\ uPc = "visit"
  /\ pStep = "pull2"
  /\ LET p == pSorted[pIdx]
         res == uRes[p]
         g == uFacts[p].git
         mainline == _remote_head_mainline_ref(g, res.current_branch_remote)
         branch == HeadBranch(g)
     IN \E pull_ok \in BOOLEAN, fails \in CmdFailures, answer \in BOOLEAN,
           del_ok \in BOOLEAN :
          LET d == _is_deleted_branch(CheckedOut(g, mainline), branch, fails)
              o == FormerBranchOffer(p, d, branch.name, pull_ok, answer, del_ok)
          IN /\ pEvents' = pEvents \cup o.events
             /\ pOk' = (pOk /\ o.ok)
             /\ pStep' = AfterOffer(res)
  /\ pIdx' = IF pStep' = "head" THEN pIdx + 1 ELSE pIdx
  /\ UNCHANGED <<pSorted, pPrinted>>
  /\ UNCHANGED <<uvars, rvars, avars, gLaunched>>

\* the mutant: the first branch whose deletion fails ends the loop
DeleteCandidatesUntilFailure(p, deletable, answer, failing) ==
  LET failedAt == {i \in 1..Len(deletable) : deletable[i] \in failing}
      last == IF failedAt = {} THEN Len(deletable)
              ELSE CHOOSE i \in failedAt : \A k \in failedAt : i <= k
      tried == SubSeq(deletable, 1, last)
      done == SelectSeq(tried, LAMBDA b : b \notin failing)
      failed == SelectSeq(tried, LAMBDA b : b \in failing)
  IN IF ~answer
     THEN [events |-> Event(p, "ask_delete"), ok |-> TRUE]
     ELSE [events |-> Event(p, "ask_delete") \cup Event(p, "delete_accepted")
                        \cup BranchEvents(p, "deleted", done)
                        \cup BranchEvents(p, "delete_failed", failed),
           ok |-> failed = <<>>]

\* "if confirm(msg): ... for b in res.deletable: try: repo.delete_head(b)":
\* what is printed and whether overall_ok survives;
\* failing: the branches whose deletion raises
DeleteCandidates(p, deletable, answer, failing) ==
  LET done == SelectSeq(deletable, LAMBDA b : b \notin failing)
      failed == SelectSeq(deletable, LAMBDA b : b \in failing)
  IN IF ~answer
     THEN [events |-> Event(p, "ask_delete"), ok |-> TRUE]
     ELSE [events |-> Event(p, "ask_delete") \cup Event(p, "delete_accepted")
                        \cup BranchEvents(p, "deleted", done)
                        \cup BranchEvents(p, "delete_failed", failed),
           ok |-> failed = <<>>]

\* "candidate branches for deletion": one confirmation, then delete_head for
\* each branch
PCandidates ==
  /\ uPc = "visit"
  /\ pStep = "candidates"
  /\ LET p == pSorted[pIdx]
         res == uRes[p]
     IN \E answer \in BOOLEAN, failing \in SUBSET Range(res.deletable) :
          LET c == DeleteCandidates(p, res.deletable, answer, failing)
          IN /\ pEvents' = pEvents \cup c.events
             /\ pOk' = (pOk /\ c.ok)
  /\ pStep' = "head"
  /\ pIdx' = pIdx + 1
  /\ UNCHANGED <<pSorted, pPrinted>>
  /\ UNCHANGED <<uvars, rvars, avars, gLaunched>>

\* "return overall_ok"
PReturn ==
  /\ uPc = "visit"
  /\ pStep = "head"
  /\ pIdx > Len(pSorted)
  /\ uPc' = "returned"
  /\ uRet' = IF pOk THEN "true" ELSE "false"
  /\ UNCHANGED <<uCpu, uRepos, uFacts, uSubmitted, uFutMap, uSt, uFetchOk, uRes,
                 uResults, uInterrupts, uStarted, uPending, uLate, uInFlight,
                 uSignalled>>
  /\ UNCHANGED <<pvars, rvars, avars, gLaunched>>

\* a KeyboardInterrupt while the main thread waits for its checkout or pull:
\* launch_subprocess signals the process group and raises again, and the
\* exception leaves update()
PInterrupt ==
  /\ uPc = "visit"
  /\ pStep \in {"checkout", "pull2"}
  /\ uInterrupts < MaxInterrupts
  /\ uInterrupts' = uInterrupts + 1
  /\ uSignalled' = uSignalled \cup
       {q.path : q \in Killpg({[path |-> pSorted[pIdx], thread |-> "main"]}, "main")}
  /\ uPc' = "raised"
  /\ UNCHANGED <<uCpu, uRepos, uFacts, uSubmitted, uFutMap, uSt, uFetchOk, uRes,
                 uResults, uRet, uStarted, uPending, uLate, uInFlight>>
  /\ UNCHANGED <<pvars, rvars, avars, gLaunched>>

RepNext ==
  \/ PBegin
  \/ PVisit
  \/ POffer
  \/ PCheckoutDone
  \/ PPull2Done
  \/ PCandidates
  \/ PReturn
  \/ PInterrupt

\* update() from its start to its return, while no KeyboardInterrupt reaches
\* the parallel phase
UNext == WNext \/ RepNext

\* the behaviours of a repository the pool specification draws from
HealthyGit ==
  [head |-> "b1", remotes |-> {"origin"}, refs |-> {<<"origin", "b1">>},
   symref |-> <<"refs", "remotes", "origin", "main">>,
   branches |-> <<[name |-> "b1", tracking |-> <<"origin", "b1">>, ahead |-> 0,
                   merged |-> FALSE]>>]

StaleGit ==
  [head |-> "detached", remotes |-> {"origin"}, refs |-> {},
   symref |-> <<"refs", "remotes", "origin", "main">>,
   branches |-> <<[name |-> "b1", tracking |-> <<"origin", "b1">>, ahead |-> 0,
                   merged |-> TRUE]>>]

PoolFacts ==
  { [git |-> HealthyGit, fetch |-> "ok", pull |-> "ok", raiseAt |-> "none"],
    [git |-> HealthyGit, fetch |-> "fail", pull |-> "fail", raiseAt |-> "none"],
    [git |-> StaleGit, fetch |-> "ok", pull |-> "ok", raiseAt |-> "none"],
    [git |-> StaleGit, fetch |-> "ok", pull |-> "ok", raiseAt |-> "open"],
    [git |-> HealthyGit, fetch |-> "ok", pull |-> "ok", raiseAt |-> "detect"],
    [git |-> HealthyGit, fetch |-> "ok", pull |-> "ok", raiseAt |-> "fetch"] }

\* the current branch, merged, lost its upstream
GoneGit ==
  [head |-> "b1", remotes |-> {"origin"}, refs |-> {},
   symref |-> <<"refs", "remotes", "origin", "main">>,
   branches |-> <<[name |-> "b1", tracking |-> <<"origin", "b1">>, ahead |-> 0,
                   merged |-> TRUE]>>]

\* the current branch is up to date, another branch, merged, lost its upstream
MixedGit ==
  [head |-> "b1", remotes |-> {"origin"}, refs |-> {<<"origin", "b1">>},
   symref |-> <<"refs", "remotes", "origin", "main">>,
   branches |-> <<[name |-> "b1", tracking |-> <<"origin", "b1">>, ahead |-> 0,
                   merged |-> FALSE],
                  [name |-> "b2", tracking |-> <<"origin", "b2">>, ahead |-> 0,
                   merged |-> TRUE]>>]

\* two merged branches lost their upstream, neither is checked out
TwoStaleGit ==
  [head |-> "detached", remotes |-> {"origin"}, refs |-> {},
   symref |-> <<"refs", "remotes", "origin", "main">>,
   branches |-> <<[name |-> "b1", tracking |-> <<"origin", "b1">>, ahead |-> 0,
                   merged |-> TRUE],
                  [name |-> "b2", tracking |-> <<"origin", "b2">>, ahead |-> 0,
                   merged |-> TRUE]>>]

ReportFacts ==
  { [git |-> HealthyGit, fetch |-> "ok", pull |-> "ok", raiseAt |-> "none"],
    [git |-> MixedGit, fetch |-> "fail", pull |-> "fail", raiseAt |-> "none"],
    [git |-> StaleGit, fetch |-> "ok", pull |-> "ok", raiseAt |-> "none"],
    [git |-> StaleGit, fetch |-> "ok", pull |-> "ok", raiseAt |-> "open"],
    [git |-> GoneGit, fetch |-> "ok", pull |-> "ok", raiseAt |-> "none"],
    [git |-> [GoneGit EXCEPT !.symref = <<"fail">>], fetch |-> "ok", pull |-> "ok",
     raiseAt |-> "none"] }

\* repositories for the deletion prompt: up to two branches to delete
DeleteFacts ==
  { [git |-> HealthyGit, fetch |-> "ok", pull |-> "ok", raiseAt |-> "none"],
    [git |-> TwoStaleGit, fetch |-> "ok", pull |-> "ok", raiseAt |-> "none"],
    [git |-> GoneGit, fetch |-> "ok", pull |-> "ok", raiseAt |-> "none"] }

InitUpdate == RIdle /\ AIdle /\ UInit(0..NumRepos, ReportFacts, {1}) /\ PIdle /\ GIdle

SpecUpdate == InitUpdate /\ [][UNext]_vars

InitDelete == RIdle /\ AIdle /\ UInit(0..NumRepos, DeleteFacts, {1}) /\ PIdle /\ GIdle

SpecDelete == InitDelete /\ [][UNext]_vars

\* update() over WideRepos healthy repositories, found in path order
InitWide ==
  /\ RIdle /\ AIdle /\ PIdle /\ GIdle
  /\ uPc = "begin"
  /\ uCpu \in {0, 1}
  /\ uRepos = [i \in 1..WideRepos |-> i]
  /\ uFacts = [i \in 1..WideRepos |->
                 [git |-> HealthyGit, fetch |-> "ok", pull |-> "ok", raiseAt |-> "none"]]
  /\ uSubmitted = 0
  /\ uFutMap = FALSE
  /\ uSt = [p \in 1..WideRepos |-> "none"]
  /\ uFetchOk = [p \in 1..WideRepos |-> FALSE]
  /\ uRes = [p \in 1..WideRepos |-> NoRes]
  /\ uResults = <<>>
  /\ uInterrupts = 0
  /\ uRet = "none"
  /\ uStarted = [p \in 1..WideRepos |-> 0]
  /\ uPending = {}
  /\ uLate = {}
  /\ uInFlight = {}
  /\ uSignalled = {}

\* an uninterrupted parallel phase: a worker thread that can take a queued
\* repository does so, a started git process ends, and the main thread takes
\* the results that are ready
SpecWide == InitWide /\ [][WNext]_vars /\ WF_vars(WNext)

InitPool == RIdle /\ AIdle /\ UInit(0..NumRepos, PoolFacts, {1}) /\ PIdle /\ GIdle

SpecPool == InitPool /\ [][PNext]_vars

InitWorker == RIdle /\ AIdle /\ UInit({1}, UFactsAll, {0, 1}) /\ PIdle /\ GIdle

SpecWorker == InitWorker /\ [][WNext]_vars

InitBranch == RIdle /\ AInit /\ UIdle /\ PIdle /\ GIdle

SpecBranch == InitBranch /\ [][ANext]_vars


InitRemove == RInit /\ AIdle /\ UIdle /\ PIdle /\ GIdle

SpecRemove == InitRemove /\ [][RNext]_vars

\* ------------------------------------------------------------- properties
\* the explicit confirmations other than "DELETE <path>?"
AdditionalConfirmations == {"extra", "risky"}

\* C1: a repository whose status is not clean is never handed to
\* shutil.rmtree unless the user accepted a confirmation other than
\* "DELETE <path>?" for it
C1_DirtyNeedsExtraConfirmation ==
  \A root \in rRmtree :
    root \in rDirty => \E k \in AdditionalConfirmations : <<root, k>> \in rAccepted

\* C2: when an item names a place whose repository root is outside src, or
\* a place in no repository, the call asks nothing, cleans nothing, deletes
\* nothing, never gets past the resolution loop and returns 1
C2_OutsideAbortsUntouched ==
  rOutside =>
    /\ rAsked = {} /\ rCleaned = {} /\ rRmtree = {} /\ rGone = {}
    /\ rPc \in {"start", "resolve", "done"}
    /\ rRet /= 0
    /\ rPc = "done" => rRet = 1

\* an out-of-bounds item ended the call after an earlier item was resolved
C2_Witness ==
  /\ rOutside /\ ~rUnknown
  /\ rPc = "done" /\ rRet = 1
  /\ rRepoMap /= <<>>

\* C3: when an item is neither a package nor a directory below the
\* workspace or src, the call cleans and deletes nothing and returns non-zero,
\* wherever the item stands and whatever else was resolved
C3_UnknownAbortsBeforeDestruction ==
  rUnknown =>
    /\ rCleaned = {} /\ rRmtree = {} /\ rGone = {}
    /\ rPc \notin {"confirm_risky", "confirm_final", "delete"}
    /\ rRet /= 0
    /\ rPc = "done" => rRet = 1

\* an unknown item ended the call although another item was resolved
C3_Witness ==
  /\ rUnknown /\ ~rOutside
  /\ rPc = "done" /\ rRet = 1
  /\ rMissing /= <<>> /\ rRepoMap /= <<>>

\* a git command of the analysis of aBranch was run and failed
SomeCheckFailed ==
  LET t == aBranch.tracking
      probed == t /= <<>> /\ ~RemoteMissing(aRepo, t) /\ ~UpstreamAlive(aRepo, t)
                  /\ ~IsCurrentBranch(aRepo, aBranch)
      reached == probed /\ ~_has_commits_not_on_any_remote(aBranch, aFails)
  IN \/ t /= <<>> /\ RemoteMissing(aRepo, t)
     \/ probed /\ aFails.revList
     \/ reached /\ aRepo.symref = <<"fail">>
     \/ reached /\ _remote_head_mainline_ref(aRepo, t[1]) /= <<>> /\ aFails.mergeBase

\* C4: a branch whose analysis met a failing git command is not deletable
C4_FailClosed ==
  aPc = "done" /\ SomeCheckFailed => ~aResult.deletable

\* C5: a branch with a commit that no remote reaches is not deletable
C5_UnpushedNeverDeletable ==
  aPc = "done" /\ aBranch.ahead >= 1 => ~aResult.deletable

\* a branch with an unpushed commit and a pruned upstream was analysed while
\* rev-list failed
C5_Witness ==
  /\ aPc = "done"
  /\ aBranch.ahead >= 1
  /\ aBranch.tracking /= <<>>
  /\ ~RemoteMissing(aRepo, aBranch.tracking)
  /\ ~UpstreamAlive(aRepo, aBranch.tracking)
  /\ ~IsCurrentBranch(aRepo, aBranch)
  /\ aFails.revList
  /\ _remote_head_mainline_ref(aRepo, "origin") /= <<>>
  /\ ~aResult.deletable

\* the repositories of the run whose process_repo has returned a result
\* without an exception
Analysed ==
  {p \in Range(uRepos) : uSt[p] = "done" /\ uRes[p].error = ""
                           /\ uFacts[p].git.head \notin {"nohead", "detached"}}

\* the checked-out branch lost its upstream or its remote
HeadLostUpstream(g) ==
  /\ HeadBranch(g).tracking /= <<>>
  /\ \/ RemoteMissing(g, HeadBranch(g).tracking)
     \/ ~UpstreamAlive(g, HeadBranch(g).tracking)

CurrentBranchWarnings ==
  {"remote of current branch does not exist",
   "current branch was deleted on the remote"}

\* C6: the checked-out branch is never in a result's deletable list, and
\* when it lost its upstream or its remote and the branches were analysed, the
\* result carries the warning about it
C6_CurrentBranchKept ==
  \A p \in Analysed :
    LET g == uFacts[p].git
    IN /\ g.head \notin Range(uRes[p].deletable)
       /\ HeadLostUpstream(g) /\ uRes[p].fetch_ok =>
            Range(uRes[p].warnings) \cap CurrentBranchWarnings /= {}

\* the checked-out branch, merged and with a pruned upstream, was analysed
C6_Witness ==
  \E p \in Analysed :
    LET g == uFacts[p].git
    IN /\ HeadLostUpstream(g) /\ ~RemoteMissing(g, HeadBranch(g).tracking)
       /\ HeadBranch(g).merged
       /\ g.symref = <<"refs", "remotes", "origin", "main">>
       /\ uRes[p].fetch_ok
       /\ "current branch was deleted on the remote" \in Range(uRes[p].warnings)
       /\ uRes[p].deletable = <<>>

\* C7: without an interrupt no repository is started twice, and when the
\* parallel phase ends every discovered repository was processed once and has
\* one collected result
C7_OncePerRepo ==
  uInterrupts = 0 =>
    /\ \A p \in Paths : uStarted[p] <= 1
    /\ \A i, j \in 1..Len(uResults) : uResults[i] = uResults[j] => i = j
    /\ uPc = "report" =>
         /\ Len(uResults) = Len(uRepos)
         /\ Range(uResults) = Range(uRepos)
         /\ \A p \in Range(uRepos) : uStarted[p] = 1 /\ uRes[p].path = p

\* all repositories were collected, the last submitted one first
C7_Witness ==
  /\ uInterrupts = 0
  /\ uPc = "report"
  /\ Len(uRepos) = NumRepos
  /\ Len(uResults) = NumRepos
  /\ uResults[1] = uRepos[NumRepos]

\* process_repo of a repository with these facts raises an exception
Raises(f) ==
  \/ f.raiseAt \in {"fetch", "open"}
  \/ f.raiseAt = "pull" /\ f.git.head /= "nohead" /\ PullWanted(f.git)
  \/ f.raiseAt = "detect" /\ f.git.head /= "nohead"

\* C8: a repository whose worker raised has a result with the error and
\* with fetch_ok False, pull_attempted False and no deletable branch or warning;
\* every other repository has the result of its own facts, and the parallel
\* phase still collects all of them
C8_FailureIsolated ==
  /\ \A p \in Range(uRepos) : uSt[p] = "done" =>
       IF Raises(uFacts[p])
       THEN /\ uRes[p].error /= "" /\ uRes[p].path = p
            /\ ~uRes[p].fetch_ok /\ ~uRes[p].pull_attempted
            /\ uRes[p].deletable = <<>> /\ uRes[p].warnings = <<>>
       ELSE /\ uRes[p].error = "" /\ uRes[p].path = p
            /\ uRes[p].fetch_ok = (uFacts[p].fetch = "ok")
            /\ uRes[p].pull_attempted =>
                 uRes[p].pull_ok = (uFacts[p].pull = "ok")
  /\ uPc = "report" => Range(uResults) = Range(uRepos)

\* a run ended with the result of a failed worker and the result of a
\* successful one
C8_Witness ==
  /\ uPc = "report"
  /\ \E p, q \in Range(uRepos) :
       /\ Raises(uFacts[p]) /\ uRes[p].error /= ""
       /\ ~Raises(uFacts[q]) /\ uRes[q].error = "" /\ uRes[q].fetch_ok
       /\ uRes[q].deletable /= <<>>

\* C9: no process_repo starts after the interrupt, and update() returns
\* with the work that was queued at the interrupt never started
C9_NoStartAfterInterrupt ==
  /\ uLate = {}
  /\ uPc = "returned" /\ uRet = "false" => \A p \in uPending : uStarted[p] = 0

\* C10: every git subprocess that was in flight in a worker thread at the
\* interrupt had its process group signalled
C10_InFlightGroupsSignalled ==
  uInterrupts > 0 => uInFlight \subseteq uSignalled

Ascending(seq) == \A i, j \in 1..Len(seq) : i < j => seq[i] < seq[j]

\* C11: the Reporter prints the repositories in ascending path order, and
\* at its return it has printed exactly the discovered repositories, whatever
\* the order in which the results were appended
C11_ReportPathSorted ==
  /\ Ascending(pPrinted)
  /\ uPc = "returned" =>
       /\ Range(pPrinted) = Range(uRepos)
       /\ Len(pPrinted) = Len(uRepos)

\* all repositories were reported although the results were appended in
\* descending path order
C11_Witness ==
  /\ uPc = "returned"
  /\ Len(uResults) = NumRepos
  /\ \A i, j \in 1..Len(uResults) : i < j => uResults[i] > uResults[j]
  /\ Len(pPrinted) = NumRepos
  /\ Ascending(pPrinted)

\* the repository p has a worker error, a failed fetch, a failed attempted
\* pull or a branch whose deletion failed
RepoFailed(p) ==
  \/ uRes[p].error /= ""
  \/ ~uRes[p].fetch_ok
  \/ uRes[p].pull_attempted /\ ~uRes[p].pull_ok
  \/ \E e \in pEvents : e[1] = p /\ e[2] = "delete_failed"

C13_RmtreeFailureFlipsStatus ==
  rPc = "done" /\ rRmtree \ rGone /= {} => rRet /= 0

\* the repositories the items were resolved to
MappedRoots == {rRepoMap[i].root : i \in 1..Len(rRepoMap)}

\* root was selected through package names only and holds a package that was
\* not requested
HasUnrequestedPackage(root) ==
  /\ root \notin rExplicit
  /\ \E i \in 1..Len(rRepoMap) :
       /\ rRepoMap[i].root = root
       /\ \E pkg \in Range(find_packages_in_directory(root)) :
            pkg \notin Range(rRepoMap[i].pkgs)

\* the user declined the question about the other packages of root
DeclinedExtra(root) == <<root, "extra">> \in rAsked \ rAccepted

\* C14: a repository selected by package names that holds an unrequested
\* package gets no status, cleanup or deletion before the question about the
\* other packages was accepted; a declined repository is left alone, the call
\* still returns 0 and every other mapped repository is processed
C14_ExtraPackagesGate ==
  /\ \A root \in Range(rStatusRuns) \cup rCleaned \cup rRmtree :
       HasUnrequestedPackage(root) => <<root, "extra">> \in rAccepted
  /\ \A root \in MappedRoots :
       DeclinedExtra(root) =>
         /\ root \notin Range(rStatusRuns) \cup rCleaned \cup rRmtree
         /\ <<root, "risky">> \notin rAsked /\ <<root, "final">> \notin rAsked
         /\ rRet /= 1
         /\ rPc = "done" =>
              /\ rRet = 0
              /\ \A other \in MappedRoots \ {root} :
                   \/ DeclinedExtra(other)
                   \/ SafetyGuardRefuses(other)
                   \/ other \in Range(rStatusRuns)

\* the call ended with one repository declined and another one deleted
C14_Witness ==
  /\ rPc = "done" /\ rRet = 0
  /\ \E root, other \in MappedRoots :
       /\ HasUnrequestedPackage(root) /\ DeclinedExtra(root)
       /\ root \notin Range(rStatusRuns)
       /\ other /= root /\ other \in rGone

\* HEAD is valid and on a branch whose tracking ref is configured and resolves
PullConditions(g) ==
  /\ g.head \notin {"nohead", "detached"}
  /\ \E b \in Range(g.branches) :
       b.name = g.head /\ b.tracking /= <<>> /\ b.tracking \in g.refs

\* C15: a pull subprocess runs, and a result has pull_attempted, only for
\* a repository whose HEAD is valid and attached and whose tracking branch is
\* configured and resolves after the fetch
C15_PullOnlyWithLiveUpstream ==
  \A p \in Range(uRepos) :
    ~PullConditions(uFacts[p].git) =>
      /\ uSt[p] /= "pull"
      /\ ~uRes[p].pull_attempted
      /\ \A q \in gLaunched : q.cmd /= "pull"

\* a pull was attempted after a failed fetch and failed too
C15_Witness ==
  \E p \in Range(uRepos) :
    /\ PullConditions(uFacts[p].git)
    /\ uSt[p] = "done" /\ uRes[p].pull_attempted /\ ~uRes[p].pull_ok
    /\ ~uRes[p].fetch_ok
    /\ \E q \in gLaunched : q.cmd = "pull"

\* C16: in every step, a repository's pull starts only from its finished
\* fetch, a result without error is produced only after the fetch was waited
\* for, and the fetch is the first thing a started process_repo does
C16_FetchBeforeTheRest ==
  [][\A p \in Paths :
       /\ uSt'[p] = "pull" /\ uSt[p] /= "pull" => uSt[p] = "fetch"
       /\ uSt'[p] = "fetch" /\ uSt[p] /= "fetch" => uSt[p] = "queued"
       /\ uRes'[p] /= uRes[p] /\ uRes'[p].error = "" => uSt[p] \in {"fetch", "pull"}
       /\ uSt[p] = "queued" /\ uSt'[p] /= "queued" =>
            uSt'[p] = "fetch" \/ (uSt'[p] = "done" /\ uRes'[p].error /= "")]_vars

\* a later repository has pulled and finished while an earlier one still fetches
C16_Witness ==
  /\ Len(uRepos) = NumRepos
  /\ uSt[uRepos[1]] = "fetch"
  /\ uSt[uRepos[NumRepos]] = "done"
  /\ uRes[uRepos[NumRepos]].pull_attempted

\* C17: every git process that can reach the network was started with
\* GIT_TERMINAL_PROMPT=0
C17_NoTerminalPrompt ==
  \A q \in gLaunched : q.promptOff

\* C18: the RepoStatus of a git repository has is_clean exactly when it
\* lists no tracked change, no untracked file, no stash and no unpushed,
\* local-only or deleted-upstream branch, and is_clean = ~has_changes
C18_IsCleanMeansNoRisk ==
  rStatus.is_git =>
    /\ rStatus.is_clean = ( /\ rStatus.changes_summary = <<>>
                            /\ rStatus.untracked_count = 0
                            /\ rStatus.stash_count = 0
                            /\ rStatus.unpushed_branches = <<>>
                            /\ rStatus.local_only_branches = <<>>
                            /\ rStatus.deleted_upstream_branches = <<>> )
    /\ rStatus.is_clean = ~rStatus.has_changes

\* a status whose only risk is a branch with a deleted upstream
C18_Witness ==
  /\ rStatus.is_git /\ ~rStatus.is_clean
  /\ rStatus.changes_summary = <<>> /\ rStatus.untracked_count = 0
  /\ rStatus.stash_count = 0
  /\ rStatus.unpushed_branches = <<>> /\ rStatus.local_only_branches = <<>>
  /\ rStatus.deleted_upstream_branches /= <<>>

\* the repository the deletion loop stands at
CurrentRoot == rFinal[rIdx].root

\* the repositories that reached Skipped, Deleted or DeletionFailed
Finished ==
  rRmtree \cup {root \in MappedRoots :
                  \E k \in {"extra", "risky", "final"} : <<root, k>> \in rAsked \ rAccepted}

\* C19: the status of a repository is computed at most once; a repository
\* is cleaned or deleted only after its status was computed and "DELETE?" was
\* accepted; the repository being confirmed or deleted is the one whose status
\* was computed last and has not finished before
C19_RepositoryLifecycle ==
  /\ \A i, j \in 1..Len(rStatusRuns) : rStatusRuns[i] = rStatusRuns[j] => i = j
  /\ \A root \in rRmtree \cup rCleaned :
       /\ root \in Range(rStatusRuns)
       /\ <<root, "final">> \in rAccepted
  /\ rCleaned \subseteq rRmtree /\ rGone \subseteq rRmtree
  /\ \A root \in MappedRoots :
       <<root, "final">> \in rAsked \/ <<root, "risky">> \in rAsked =>
         root \in Range(rStatusRuns)
  /\ rPc \in {"confirm_risky", "confirm_final", "delete"} =>
       /\ CurrentRoot = rStatusRuns[Len(rStatusRuns)]
       /\ CurrentRoot \notin Finished
       /\ rPc = "confirm_final" => <<CurrentRoot, "final">> \notin rAsked
       /\ rPc = "delete" => CurrentRoot \notin rCleaned

\* two packages of one repository were given; its status was computed once and
\* it was deleted
C19_Witness ==
  /\ rPc = "done" /\ rRet = 0
  /\ Len(rRepoMap) = 1 /\ Len(rRepoMap[1].pkgs) = 2
  /\ rStatusRuns = <<rRepoMap[1].root>>
  /\ rRepoMap[1].root \in rGone

\* what the steps of the analysis find for aBranch when no command fails
TrackingConfigured == aBranch.tracking /= <<>>

RemoteResolves == TrackingConfigured /\ ~RemoteMissing(aRepo, aBranch.tracking)

UpstreamGone == RemoteResolves /\ aBranch.tracking \notin aRepo.refs

NotCheckedOut == aRepo.head /= aBranch.name

NothingUnpushed == aBranch.ahead = 0

MainlineResolves ==
  /\ TrackingConfigured
  /\ Len(aRepo.symref) = 4
  /\ SubSeq(aRepo.symref, 1, 3) = <<"refs", "remotes", aBranch.tracking[1]>>

MergedIntoMainline == MainlineResolves /\ aBranch.merged

AllStepsPass ==
  /\ TrackingConfigured /\ RemoteResolves /\ UpstreamGone /\ NotCheckedOut
  /\ NothingUnpushed /\ MainlineResolves /\ MergedIntoMainline

\* C20: a deletable branch passes every step; a branch that passes every
\* step is deletable unless merge-base itself fails; a warning is
\* returned exactly for a not deletable branch that is checked out and lost its
\* remote, or that lost its upstream while its remote resolves
C20_DeletableExactly ==
  aPc = "done" =>
    /\ aResult.deletable => AllStepsPass
    /\ AllStepsPass /\ ~aFails.mergeBase => aResult.deletable
    /\ (aResult.warn /= "") =
         ( /\ ~aResult.deletable
           /\ \/ TrackingConfigured /\ ~RemoteResolves /\ ~NotCheckedOut
              \/ UpstreamGone )

\* a deletable branch, and no warning with it
C20_Witness ==
  /\ aPc = "done"
  /\ aResult.deletable /\ aResult.warn = ""
  /\ AllStepsPass
  /\ aFails = NoFailure

RmtreeFailed == rRmtree \ rGone

\* the repository went through the steps of the loop, as far as the user let it
TakenThrough(entry) ==
  \/ SafetyGuardRefuses(entry.root)
  \/ /\ entry.root \in Range(rStatusRuns)
     /\ \/ <<entry.root, "risky">> \in rAsked \ rAccepted
        \/ <<entry.root, "final">> \in rAsked \ rAccepted
        \/ /\ <<entry.root, "final">> \in rAccepted
           /\ entry.pkgs /= <<>> => entry.root \in rCleaned
           /\ entry.root \in rRmtree

\* C24: when the call has ended, every repository of the batch that comes
\* after one whose rmtree failed was still taken through status, confirmation,
\* cleanup and deletion, and the call returned normally
C24_RmtreeFailureIsolated ==
  rPc = "done" /\ RmtreeFailed /= {} =>
    /\ rRet = 0
    /\ \A i \in 1..Len(rFinal) :
         (\E j \in 1..(i - 1) : rFinal[j].root \in RmtreeFailed) =>
           TakenThrough(rFinal[i])

\* the rmtree of the first repository failed, the second one was removed
C24_Witness ==
  /\ rPc = "done" /\ Len(rFinal) = 2
  /\ rFinal[1].root \in RmtreeFailed
  /\ rFinal[2].root \in rGone /\ rFinal[2].root \in rCleaned

\* C28: without a fetch the three branch lists of a status are empty and
\* is_clean tells only that there are no tracked changes, no untracked files
\* and no stash; a repository reported clean that holds a local-only branch
\* or unpushed commits is never asked the risk confirmation
C28_NoFetchHidesBranchRisk ==
  ~rFetch =>
    /\ rStatus.is_git =>
         /\ rStatus.unpushed_branches = <<>>
         /\ rStatus.local_only_branches = <<>>
         /\ rStatus.deleted_upstream_branches = <<>>
         /\ rStatus.is_clean = (/\ rStatus.changes_summary = <<>>
                                /\ rStatus.untracked_count = 0
                                /\ rStatus.stash_count = 0)
    /\ \A root \in rHiddenWork :
         /\ <<root, "risky">> \notin rAsked
         /\ root \notin rDirty

\* a repository with unpushed work was reported clean without a fetch and was
\* removed after the "DELETE?" confirmation alone
C28_Witness ==
  /\ ~rFetch
  /\ \E root \in rHiddenWork :
       /\ root \in rGone
       /\ {a \in rAsked : a[1] = root} = {<<root, "final">>}

\* the item is no package name and names an existing directory
IsDirectoryItem(item) == get_package_path(item) = NoPath /\ FoundPath(item) /= NoPath

\* the repository a directory item lies in
OwningRepo(item) == _get_repo_root(FoundPath(item), SrcRoot, GitRoots(rWsIsRepo))

\* C29: resolving a directory item that lies in a repository below src puts
\* that repository into repos_explicitly_selected, whether the directory is
\* the root or lies deeper; an explicitly selected repository is never asked
\* the extra-packages confirmation and enters the final list with all its
\* packages, which are the ones passed to the cleanup
C29_DirectorySelectsWholeRepo ==
  [][/\ (/\ rPc = "resolve" /\ rItems /= <<>>
         /\ IsDirectoryItem(Head(rItems))
         /\ OwningRepo(Head(rItems)) /= NoPath) =>
          /\ OwningRepo(Head(rItems)) \in rExplicit'
          /\ OwningRepo(Head(rItems)) \in {rRepoMap'[i].root : i \in 1..Len(rRepoMap')}
     /\ \A root \in rExplicit' : <<root, "extra">> \notin rAsked'
     /\ \A i \in 1..Len(rRepoMap') :
          (rPc' = "exec" /\ rRepoMap'[i].root \in rExplicit') =>
            \E k \in 1..Len(rFinal') :
              rFinal'[k] = [root |-> rRepoMap'[i].root,
                            pkgs |-> find_packages_in_directory(rRepoMap'[i].root)]
    ]_vars

\* a repository requested by one of its packages and by a directory was
\* cleaned and removed without the question about its other packages
C29_Witness ==
  /\ rPc = "done" /\ rRet = 0
  /\ \E i \in 1..Len(rRepoMap) :
       LET root == rRepoMap[i].root
       IN /\ root \in rExplicit
          /\ Len(rRepoMap[i].pkgs) = 1
          /\ Len(find_packages_in_directory(root)) = 2
          /\ root \in rCleaned /\ root \in rGone
          /\ <<root, "extra">> \notin rAsked

\* what the Reporter printed or did about the repository p
EventsOf(p) == {e \in pEvents : e[1] = p}

\* the result of p tells a failed fetch (and no exception)
FetchFailed(p) == uSt[p] = "done" /\ uRes[p].error = "" /\ ~uRes[p].fetch_ok

\* C21: of a repository whose fetch failed the Reporter prints the subheader
\* and the fetch failure and nothing else; it neither stops at the
\* stale-branch offer nor at the deletion prompt of that repository, and when
\* update() returns every repository was reported
C21_FetchFailureOnly ==
  \A p \in Range(pPrinted) :
    FetchFailed(p) =>
      /\ EventsOf(p) = Event(p, "header") \cup Event(p, "fetch_failed")
      /\ pStep /= "head" => pSorted[pIdx] /= p
      /\ ~pOk
      /\ uPc = "returned" => Range(pPrinted) = Range(uRepos) /\ uRet = "false"

\* a repository whose fetch failed and whose pull was started was reported,
\* and a later repository got its pull status
C21_Witness ==
  /\ uPc = "returned"
  /\ \E p, q \in Range(pPrinted) :
       /\ p < q
       /\ FetchFailed(p) /\ uRes[p].pull_attempted
       /\ <<q, "pulled", "">> \in pEvents

\* the branch b of p was passed to delete_head by the deletion prompt
Attempted(p, b) == <<p, "deleted", b>> \in pEvents \/ <<p, "delete_failed", b>> \in pEvents

C26_ReporterAfterWorkers ==
  [][/\ (pEvents' /= pEvents
            \/ \E l \in gLaunched' \ gLaunched : l.cmd = "checkout") =>
          /\ uPc = "visit"
          /\ \A p \in Range(uRepos) : uSt[p] = "done"
     /\ (uPc' = "visit" \/ pEvents' /= {}) =>
          /\ \A p \in Range(uRepos') : uSt'[p] = "done"
          /\ \A p \in Paths : uSt'[p] \notin {"queued", "fetch", "pull"}
     /\ uPc \in {"report", "visit"} => uRes' = uRes /\ uSt' = uSt
    ]_vars

\* the Reporter checked a repository out and deleted a branch while the run
\* covered two repositories
C26_Witness ==
  /\ uPc = "returned" /\ Len(uRepos) = 2
  /\ \E p \in Range(uRepos) :
       /\ <<p, "checked_out", "">> \in pEvents
       /\ \E b \in Range(BranchNames) : <<p, "deleted", b>> \in pEvents

\* the kinds of event that tell the outcome of the worker's pull
PullOutcomes == {"pulled", "pull_failed", "pull_skipped"}

\* C27: a result with fetch_ok = False has no deletable branch, no warning and
\* no current_branch_deleted_remote, also when its pull was started; the
\* Reporter prints no pull outcome and no warning for it
C27_DetectionGatedPullNot ==
  \A p \in Paths :
    uSt[p] = "done" /\ ~uRes[p].fetch_ok =>
      /\ uRes[p].deletable = <<>>
      /\ uRes[p].warnings = <<>>
      /\ ~uRes[p].current_branch_deleted_remote
      /\ \A e \in EventsOf(p) : e[2] \notin PullOutcomes \cup {"warnings"}

\* the pull ran and failed after a failed fetch, in a repository with a stale
\* branch; the Reporter printed the fetch failure
C27_Witness ==
  \E p \in Range(pPrinted) :
    /\ FetchFailed(p)
    /\ uRes[p].pull_attempted /\ ~uRes[p].pull_ok
    /\ Len(uFacts[p].git.branches) = 2
    /\ <<p, "fetch_failed", "">> \in pEvents

\* the branch that was checked out when process_repo ran in p
FormerBranch(p) == HeadBranch(uFacts[p].git).name

\* C30: the formerly current branch is passed to delete_head only after the
\* checkout was offered and accepted and succeeded, the branch was analysed
\* again without a warning, and the second question was asked and accepted;
\* a failed checkout is followed neither by the pull nor by the analysis nor
\* by the question; a failed follow-up pull fails the run
C30_FormerBranchDeletion ==
  \A p \in Range(pPrinted) :
    uRes[p].current_branch_deleted_remote =>
      LET done(kind) == <<p, kind, "">> \in pEvents
          about(kind) == <<p, kind, FormerBranch(p)>> \in pEvents
      IN /\ about("deleted") \/ about("delete_failed") =>
              /\ done("offer_accepted") /\ done("checked_out")
              /\ done("reanalysed") /\ ~done("rewarned")
              /\ about("ask_current") /\ about("accept_current")
         /\ about("ask_current") => done("reanalysed") /\ done("checked_out")
         /\ done("checked_out") => done("offer_accepted")
         /\ done("checkout_failed") =>
              /\ ~pOk
              /\ ~done("pulled2") /\ ~done("pull2_failed") /\ ~done("reanalysed")
              /\ ~about("ask_current") /\ ~about("deleted") /\ ~about("delete_failed")
         /\ done("pull2_failed") \/ about("delete_failed") => ~pOk

\* the follow-up pull failed, the branch was deleted all the same and update()
\* returned False
C30_Witness ==
  /\ uPc = "returned" /\ uRet = "false"
  /\ \E p \in Range(pPrinted) :
       /\ uRes[p].current_branch_deleted_remote
       /\ <<p, "pull2_failed", "">> \in pEvents
       /\ <<p, "accept_current", FormerBranch(p)>> \in pEvents
       /\ <<p, "deleted", FormerBranch(p)>> \in pEvents

\* min(32, 4 * cpu_count), cpu_count taken as 1 when unknown
PoolBound ==
  LET cpus == IF uCpu = 0 THEN 1 ELSE uCpu
  IN IF 4 * cpus < 32 THEN 4 * cpus ELSE 32

\* C25: at no moment are more than min(32, 4 * cpu_count) repositories being
\* processed, however many were found, and in an uninterrupted run every
\* repository is eventually processed, exactly once
C25_BoundedPool ==
  /\ [](Cardinality(Running) <= PoolBound)
  /\ <>(/\ uPc = "report"
        /\ \A p \in Range(uRepos) : uSt[p] = "done" /\ uStarted[p] = 1)

\* the pool is full and a repository waits for a free worker
C25_Witness ==
  /\ Len(uRepos) > PoolBound
  /\ Cardinality(Running) = PoolBound
  /\ Queued /= {}

====
